---- MODULE Spec2Model ----
(* The ProSystem print agent: print-job handling, port arbitration at     *)
(* startup, instance takeover at launch, and the WebSocket heartbeat.      *)
(* Each part has its own specification (Spec, StartSpec, HandoffSpec,      *)
(* HeartbeatSpec) over the same variables.                                 *)
(*                                                                         *)
(* Two revisions of the HTTP front door are in the repository:             *)
(*   src/unnamed/part_000   keeps the in-flight registry activePrintJobs   *)
(*   src/printer-api.js     has the registry removed (jobKey only logged)  *)
(* The variable revision selects which one a behaviour runs.               *)
(*                                                                         *)
(* Node runs the handlers on one thread: a handler runs from the event     *)
(* that resumes it to its next await on a pending promise, so each action  *)
(* below is one such run (the microtasks that follow an event included).   *)
EXTENDS Integers, Naturals, Sequences, FiniteSets, TLC

\* ---------------------------------------------------------------- bounds
MaxReq == 2          \* requests that arrive in one behaviour
MaxClock == 1        \* Date.now() takes the values 0..MaxClock

\* ------------------------------------------------------------- constants
Req == 1..MaxReq
Printers == {"A", "B"}
Undefined == "undefined"          \* printer.name of a printer object without name
Names == Printers \cup {Undefined}
NoJob == <<>>                     \* activePrintJobs has no entry for the name
Null == <<"null">>                \* let jobKey = null

Revisions == {"part_000", "printer-api"}

VARIABLES
  revision,         \* which revision of the front door runs
  isDevelopment,    \* process.env.NODE_ENV === 'development'
  now,              \* the last value Date.now() returned
  activePrintJobs,  \* Map printer name -> jobKey
  jobs,             \* per request: the handler's locals and what it has done
  platform,         \* process.platform
  owner,            \* per service port: the process that listens on it
  old,              \* the incumbent agent process
  intrusions,       \* how often an unrelated process has taken a free port
  boot,             \* startApi of the starting instance: position and module state
  hand,             \* the launch code of the starting instance (single-instance lock)
  clients,          \* wss.clients of the running instance
  wrap,             \* one call of wrapText: arguments, loop state, result
  call,             \* one call of a text layout function: arguments and result
  receipt,          \* one call of buildThermalReceipt: model, totals, primitives
  probe             \* one call of isPortAvailable: port, position, result

jobVars == <<revision, isDevelopment, now, activePrintJobs, jobs>>
sysVars == <<platform, owner, old, intrusions, boot, hand, clients>>
fnVars == <<wrap, call, receipt, probe>>
vars == <<jobVars, sysVars, fnVars>>

\* The locals of a handler that has not been invoked yet.
NewJob ==
  [ pc             |-> "new",     \* new, loading, printing, transmitting, done
    endpoint       |-> "none",    \* print, thermal
    name           |-> Undefined, \* req.body.printer.name
    missing        |-> "none",    \* the field the request body lacks
    jobKey         |-> Null,
    win            |-> "null",    \* null, open, destroyed
    callbackCalled |-> FALSE,
    timeout        |-> "none",    \* none, armed, cleared, fired
    socket         |-> "none",    \* none, connecting, open, ended, destroyed, closed
    native         |-> "none",    \* none, print, printDirect
    cb             |-> "none",    \* what the accepted print callback reported
    cause          |-> "none",    \* the event that settled the awaited promise
    message        |-> "",        \* message of the response body
    log            |-> <<>> ]     \* what the handler did, in order

Locking == revision = "part_000"

\* `${printer.name}-${Date.now()}`
MakeJobKey(name, t) == <<name, t>>

\* (mutant) the check is dropped
IsBusyNever(reg, name) == FALSE

\* activePrintJobs.has(name)
IsBusy(reg, name) == reg[name] # NoJob

\* (mutant) the job is not recorded
SetJobForgets(reg, name, key) == reg

\* activePrintJobs.set(name, jobKey)
SetJob(reg, name, key) == [reg EXCEPT ![name] = key]

\* (mutant) activePrintJobs.clear() in place of delete(name)
ReleaseAll(reg, name, key) ==
  IF key # Null /\ reg[name] = key THEN [n \in DOMAIN reg |-> NoJob] ELSE reg

\* if (jobKey && activePrintJobs.get(name) === jobKey) activePrintJobs.delete(name)
Release(reg, name, key) ==
  IF key # Null /\ reg[name] = key THEN [reg EXCEPT ![name] = NoJob] ELSE reg

\* The shapes of a request body: complete, or lacking one field the handler checks.
PrintShapes == {"none", "printer", "printer.name"}
ThermalShapes == {"none", "printer", "printer.name", "data", "totals", "widthMM"}

\* printer.name as the handler reads it from a body of that shape
BodyName(missing, p) == IF missing \in {"printer", "printer.name"} THEN Undefined ELSE p

\* POST /print: !printer || !printer.name
PrintRejects(missing) == missing \in {"printer", "printer.name"}

\* (mutant) widthMM is not checked
ThermalRejectsForgetsWidth(missing) == missing \in {"printer", "data", "totals"}

\* POST /print-thermal: !printerInfo || !data || !totals || !widthMM
ThermalRejects(missing) == missing \in {"printer", "data", "totals", "widthMM"}

\* e.message || 'Unknown print error occurred'
ErrMsg(m, fallback) == IF m = "" THEN fallback ELSE m

\* win && !win.isDestroyed() -> win.destroy()
DestroyWin(w) == IF w = "open" THEN "destroyed" ELSE w

\* clearTimeout(timeout): only a pending timer is affected
ClearTimeout(t) == IF t = "armed" THEN "cleared" ELSE t

\* ------------------------------------------- service ports and processes
HTTP_PORT == 21321                \* api.listen(21321, '127.0.0.1', ...)
WS_PORT == 21322                  \* new WebSocket.Server({ port: 21322 })
\* (mutant) only the HTTP port is examined
PortListHttpOnly == <<HTTP_PORT>>

PortList == <<HTTP_PORT, WS_PORT>>     \* ensurePortsAvailable([21321, 21322])
PortSet == {HTTP_PORT, WS_PORT}
MAX_STARTUP_ATTEMPTS == 3
BACKOFF_MS == 3000                \* setTimeout(() => startApi(webContents), 3000)
Platforms == {"win32", "other"}
Clients == {"c1", "c2", "c3"}           \* WebSocket clients that may connect

\* Who listens on a port: nobody, the incumbent agent, the starting
\* instance, or a process that has nothing to do with the agent.
Owners == {"free", "old", "new", "foreign"}

\* No incumbent.
NoOld ==
  [ kind       |-> "none",     \* none, agent (has /shutdown), legacy (has not)
    responsive |-> FALSE,      \* its event loop serves requests
    state      |-> "absent",   \* absent, running, closing, exited, killed
    teardown   |-> "none",     \* the 500 ms timer of /shutdown: none, armed, fired
    conn       |-> "none",     \* a request in flight on its HTTP server: none, open, hung
    held       |-> {},         \* the ports it held when the new instance was launched
    log        |-> <<>> ]      \* what its /shutdown handler did, in order

\* startApi has not been called.
NewBoot ==
  [ pc                 |-> "idle",
    port               |-> 1,       \* index in PortList of the port under examination
    apiStartupAttempts |-> 0,
    calls              |-> 0,       \* invocations of startApi
    timer              |-> 0,       \* delay of the pending retry timer, 0: none
    wss                |-> "none",  \* the server last assigned to wss: none, bound, error
    intervals          |-> 0,       \* heartbeat intervals set and not cleared
    answered           |-> {},      \* ports whose /shutdown request got a response
    unanswered         |-> {},      \* ports whose /shutdown request failed or timed out
    killed             |-> {},      \* ports killProcessOnPort was invoked for
    freeAfterKill      |-> {},      \* ports a probe found free after killProcessOnPort
    stillBusy          |-> 0,       \* final checks that found the port busy
    reported           |-> 0 ]      \* 'api-startup-failed' messages sent

\* The process holds the single-instance lock: the launch code has nothing to do.
Primary ==
  [ pc       |-> "primary",
    launches |-> 1,       \* processes launched so far
    forced   |-> 0,       \* calls of forceKillOldInstance in this process
    revision |-> "part_002",
    log      |-> <<>> ]   \* what the launch code did, in order

\* A client that has not connected.
NoClient ==
  [ state    |-> "absent",    \* absent, open, closed, terminated
    isAlive  |-> FALSE,
    pinged   |-> FALSE,       \* the ping of the last tick is unanswered
    ponged   |-> FALSE,       \* a pong arrived since the last tick
    fresh    |-> FALSE,       \* connected since the last tick
    missed   |-> FALSE ]      \* a tick came while its ping was unanswered

\* The job handlers are studied with the service up and nothing else going on.
\* No call of wrapText is in progress.
NoWrap ==
  [ pc        |-> "idle",   \* idle, call, loop, done
    text      |-> <<>>,
    maxWidth  |-> 1,
    lines     |-> <<>>,
    remaining |-> <<>>,
    branch    |-> <<>> ]    \* per line, the statement that pushed it

\* No call of a layout function is in progress.
NoCall ==
  [ fn         |-> "none",
    pc         |-> "idle",  \* idle, call, done
    leftText   |-> <<>>,
    rightText  |-> <<>>,
    totalWidth |-> 0,
    widthMM    |-> 0,
    amount     |-> <<>>,    \* the text handed to CommaFormatted
    value      |-> [nan |-> TRUE, neg |-> FALSE, mills |-> 0],
    currency   |-> "BDT",
    result     |-> <<>>,
    chars      |-> 0 ]

\* buildThermalReceipt has not been called.  data and totals say which parts
\* of the receipt model are there; out is what the printer was told, in order.
NoReceipt ==
  [ pc     |-> "idle",     \* idle, call, done, thrown
    data   |-> [ location |-> FALSE, binNumber |-> "none", vatFormNumber |-> "none",
                 address |-> FALSE, phone |-> FALSE, email |-> FALSE,
                 customDomain |-> FALSE, customer |-> FALSE, items |-> <<>>,
                 notes |-> "none" ],
    totals |-> [ charges |-> 0, payments |-> <<>>, totalPaid |-> 0, balanceDue |-> 0 ],
    out    |-> <<>> ]

\* isPortAvailable has not been called.
NoProbe ==
  [ pc     |-> "idle",     \* idle, listen, error, listening, returned
    port   |-> HTTP_PORT,
    code   |-> "none",     \* err.code of the test server's 'error' event
    result |-> "none" ]    \* what the promise resolved with

LayoutIdle ==
  /\ wrap = NoWrap
  /\ call = NoCall
  /\ receipt = NoReceipt
  /\ probe = NoProbe

SysIdle ==
  /\ platform = "win32"
  /\ owner = [p \in PortSet |-> "new"]
  /\ old = NoOld
  /\ intrusions = 0
  /\ boot = [NewBoot EXCEPT !.pc = "running", !.calls = 1, !.wss = "bound", !.intervals = 1]
  /\ hand = Primary
  /\ clients = [c \in Clients |-> NoClient]

\* Port arbitration and the heartbeat are studied with no print job around.
JobsIdle ==
  /\ LayoutIdle
  /\ revision = "printer-api"
  /\ isDevelopment = FALSE
  /\ now = 0
  /\ activePrintJobs = [n \in Names |-> NoJob]
  /\ jobs = [r \in Req |-> NewJob]

Init ==
  /\ SysIdle
  /\ LayoutIdle
  /\ revision \in Revisions
  /\ isDevelopment \in BOOLEAN
  /\ now = 0
  /\ activePrintJobs = [n \in Names |-> NoJob]
  /\ jobs = [r \in Req |-> NewJob]

\* Requests are numbered in arrival order.
Arriving(r) ==
  /\ jobs[r].pc = "new"
  /\ \A q \in Req : q < r => jobs[q].pc # "new"

\* Date.now() returns t: the clock does not run backwards.
ReadClock(t) ==
  /\ t \in now..MaxClock
  /\ now' = t

\* ------------------------------------------------- the code after the await
\* (mutant) the catch block responds without removing the entry
PrintFinishKeepsLease(r, j, reg0, status, msg) ==
  LET reg == IF status = "500" THEN reg0 ELSE Release(reg0, j.name, j.jobKey) IN
  /\ activePrintJobs' = reg
  /\ jobs' = [jobs EXCEPT ![r] =
       [j EXCEPT !.pc = "done", !.win = DestroyWin(j.win), !.message = msg,
                 !.log = j.log \o (IF j.win = "open" THEN <<"destroy">> ELSE <<>>)
                               \o (IF reg # reg0 THEN <<"delete">> ELSE <<>>)
                               \o <<status>>]]

\* part_000, POST /print: destroy the window, remove the registry entry, respond
\* (the success tail and the catch block do the three in the same order).
PrintFinish(r, j, reg0, status, msg) ==
  LET reg == Release(reg0, j.name, j.jobKey) IN
  /\ activePrintJobs' = reg
  /\ jobs' = [jobs EXCEPT ![r] =
       [j EXCEPT !.pc = "done", !.win = DestroyWin(j.win), !.message = msg,
                 !.log = j.log \o (IF j.win = "open" THEN <<"destroy">> ELSE <<>>)
                               \o (IF reg # reg0 THEN <<"delete">> ELSE <<>>)
                               \o <<status>>]]

\* (mutant) the catch block responds without removing the entry
ThermalFinishLeaks(r, j, reg0, status, msg) ==
  LET reg == IF status = "500" THEN reg0 ELSE Release(reg0, j.name, j.jobKey) IN
  /\ activePrintJobs' = reg
  /\ jobs' = [jobs EXCEPT ![r] =
       [j EXCEPT !.pc = "done", !.message = msg,
                 !.log = j.log \o (IF reg # reg0 THEN <<"delete">> ELSE <<>>)
                               \o <<status>>]]

\* part_000, POST /print-thermal: remove the registry entry, respond.
ThermalFinish(r, j, reg0, status, msg) ==
  LET reg == Release(reg0, j.name, j.jobKey) IN
  /\ activePrintJobs' = reg
  /\ jobs' = [jobs EXCEPT ![r] =
       [j EXCEPT !.pc = "done", !.message = msg,
                 !.log = j.log \o (IF reg # reg0 THEN <<"delete">> ELSE <<>>)
                               \o <<status>>]]

\* printer-api.js, POST /print: respond, then the finally block destroys the window.
ApiPrintFinish(r, j, reg0, status, msg) ==
  /\ activePrintJobs' = reg0
  /\ jobs' = [jobs EXCEPT ![r] =
       [j EXCEPT !.pc = "done", !.win = DestroyWin(j.win), !.message = msg,
                 !.log = j.log \o <<status>>
                               \o (IF j.win = "open" THEN <<"destroy">> ELSE <<>>)]]

\* printer-api.js, POST /print-thermal: respond.
ApiThermalFinish(r, j, reg0, status, msg) ==
  /\ activePrintJobs' = reg0
  /\ jobs' = [jobs EXCEPT ![r] =
       [j EXCEPT !.pc = "done", !.message = msg, !.log = j.log \o <<status>>]]

\* (mutant) the thermal handler responds and leaves the registry as it is
FinishThermalKeepsEntry(r, j, reg0, status, msg) ==
  IF j.endpoint = "print"
    THEN IF Locking THEN PrintFinish(r, j, reg0, status, msg)
                    ELSE ApiPrintFinish(r, j, reg0, status, msg)
    ELSE ApiThermalFinish(r, j, reg0, status, msg)

\* The handler resumes after its awaited promise settles (204 after resolve,
\* the catch block's 500 after reject); reg0 is the registry at that point.
Finish(r, j, reg0, status, msg) ==
  IF j.endpoint = "print"
    THEN IF Locking THEN PrintFinish(r, j, reg0, status, msg)
                    ELSE ApiPrintFinish(r, j, reg0, status, msg)
    ELSE IF Locking THEN ThermalFinish(r, j, reg0, status, msg)
                    ELSE ApiThermalFinish(r, j, reg0, status, msg)

\* (mutant) every call resumes the handler
SettleAgain(r, j, status, msg) == Finish(r, j, activePrintJobs, status, msg)

\* resolve()/reject() of the awaited promise: the first call settles it and
\* resumes the handler, a later call does nothing.
Settle(r, j, status, msg) ==
  IF jobs[r].pc \in {"printing", "transmitting"}
    THEN Finish(r, j, activePrintJobs, status, msg)
    ELSE /\ jobs' = [jobs EXCEPT ![r] = j]
         /\ UNCHANGED activePrintJobs

\* ------------------------------------------------------------ POST /print
\* !printer || !printer.name  ->  400
PrintInvalid(r, missing) ==
  /\ Arriving(r)
  /\ PrintRejects(missing)
  /\ jobs' = [jobs EXCEPT ![r] =
       [@ EXCEPT !.pc = "done", !.endpoint = "print", !.missing = missing,
                 !.message = "Printer information is missing or invalid",
                 !.log = <<"400">>]]
  /\ UNCHANGED <<fnVars, sysVars, revision, isDevelopment, now, activePrintJobs>>

\* (mutant) the entry is set before the busy check
PrintBusyOverwrites(r, missing, p, t) ==
  /\ Locking
  /\ Arriving(r)
  /\ ~PrintRejects(missing)
  /\ ReadClock(t)
  /\ IsBusy(activePrintJobs, p)
  /\ activePrintJobs' = SetJob(activePrintJobs, p, MakeJobKey(p, t))
  /\ jobs' = [jobs EXCEPT ![r] =
       [@ EXCEPT !.pc = "done", !.endpoint = "print", !.missing = missing, !.name = p,
                 !.jobKey = MakeJobKey(p, t),
                 !.message = "Please wait for the current print job to complete",
                 !.log = <<"409">>]]
  /\ UNCHANGED <<fnVars, sysVars, revision, isDevelopment>>

\* part_000: activePrintJobs.has(printer.name)  ->  409
PrintBusy(r, missing, p, t) ==
  /\ Locking
  /\ Arriving(r)
  /\ ~PrintRejects(missing)
  /\ ReadClock(t)
  /\ IsBusy(activePrintJobs, p)
  /\ jobs' = [jobs EXCEPT ![r] =
       [@ EXCEPT !.pc = "done", !.endpoint = "print", !.missing = missing, !.name = p,
                 !.jobKey = MakeJobKey(p, t),
                 !.message = "Please wait for the current print job to complete",
                 !.log = <<"409">>]]
  /\ UNCHANGED <<fnVars, sysVars, revision, isDevelopment, activePrintJobs>>

\* part_000: record the job, create the window, start loading the page.
PrintAdmit(r, missing, p, t) ==
  /\ Locking
  /\ Arriving(r)
  /\ ~PrintRejects(missing)
  /\ ReadClock(t)
  /\ ~IsBusy(activePrintJobs, p)
  /\ activePrintJobs' = SetJob(activePrintJobs, p, MakeJobKey(p, t))
  /\ jobs' = [jobs EXCEPT ![r] =
       [@ EXCEPT !.pc = "loading", !.endpoint = "print", !.missing = missing, !.name = p,
                 !.jobKey = MakeJobKey(p, t), !.win = "open",
                 !.log = <<"set", "window">>]]
  /\ UNCHANGED <<fnVars, sysVars, revision, isDevelopment>>

\* printer-api.js: no registry; create the window, start loading the page.
ApiPrintStart(r, missing, p, t) ==
  /\ ~Locking
  /\ Arriving(r)
  /\ ~PrintRejects(missing)
  /\ ReadClock(t)
  /\ jobs' = [jobs EXCEPT ![r] =
       [@ EXCEPT !.pc = "loading", !.endpoint = "print", !.missing = missing, !.name = p,
                 !.jobKey = MakeJobKey(p, t), !.win = "open",
                 !.log = <<"window">>]]
  /\ UNCHANGED <<fnVars, sysVars, revision, isDevelopment, activePrintJobs>>

\* win.loadURL resolved: arm the 30 s timer and call webContents.print.
PrintLoadResolved(r) ==
  /\ jobs[r].pc = "loading"
  /\ jobs' = [jobs EXCEPT ![r] =
       [@ EXCEPT !.pc = "printing", !.timeout = "armed", !.native = "print",
                 !.log = @ \o <<"print">>]]
  /\ UNCHANGED <<fnVars, sysVars, revision, isDevelopment, now, activePrintJobs>>

\* win.loadURL rejected with an error whose message is m: the catch block.
PrintLoadRejected(r, m) ==
  /\ jobs[r].pc = "loading"
  /\ Finish(r, [jobs[r] EXCEPT !.cause = "load-rejected"], activePrintJobs, "500",
            ErrMsg(m, "Unknown print error occurred"))
  /\ UNCHANGED <<fnVars, sysVars, revision, isDevelopment, now>>

\* (mutant) a reported failure rejects
PrintCallbackRejectsFailure(r, success) ==
  /\ jobs[r].native = "print"
  /\ IF jobs[r].callbackCalled
       THEN UNCHANGED <<activePrintJobs, jobs>>
       ELSE Settle(r, [jobs[r] EXCEPT !.callbackCalled = TRUE,
                                      !.timeout = ClearTimeout(@),
                                      !.cb = IF success THEN "success" ELSE "failure",
                                      !.cause = "callback"],
                   IF success THEN "204" ELSE "500",
                   IF success THEN "" ELSE "Print failed")
  /\ UNCHANGED <<fnVars, sysVars, revision, isDevelopment, now>>

\* The native print callback (success, failure); an invocation after
\* callbackCalled is set returns at once.
PrintCallback(r, success) ==
  /\ jobs[r].native = "print"
  /\ IF jobs[r].callbackCalled
       THEN UNCHANGED <<activePrintJobs, jobs>>
       ELSE Settle(r, [jobs[r] EXCEPT !.callbackCalled = TRUE,
                                      !.timeout = ClearTimeout(@),
                                      !.cb = IF success THEN "success" ELSE "failure",
                                      !.cause = "callback"],
                   "204", "")
  /\ UNCHANGED <<fnVars, sysVars, revision, isDevelopment, now>>

\* The 30 s timer of POST /print fires.
PrintTimeout(r) ==
  /\ jobs[r].endpoint = "print"
  /\ jobs[r].timeout = "armed"
  /\ IF jobs[r].callbackCalled
       THEN /\ jobs' = [jobs EXCEPT ![r].timeout = "fired"]
            /\ UNCHANGED activePrintJobs
       ELSE Settle(r, [jobs[r] EXCEPT !.timeout = "fired", !.callbackCalled = TRUE,
                                      !.cause = "timeout"],
                   "500", "Print operation timed out after 30 seconds")
  /\ UNCHANGED <<fnVars, sysVars, revision, isDevelopment, now>>

\* ---------------------------------------------------- POST /print-thermal
ErrMsgs == {"", "ERR"}     \* e.message of an error raised outside the handler

\* !printerInfo || !data || !totals || !widthMM  ->  400
ThermalInvalid(r, missing) ==
  /\ Arriving(r)
  /\ ThermalRejects(missing)
  /\ jobs' = [jobs EXCEPT ![r] =
       [@ EXCEPT !.pc = "done", !.endpoint = "thermal", !.missing = missing,
                 !.message = "Missing required fields: printer, data, totals, widthMM",
                 !.log = <<"400">>]]
  /\ UNCHANGED <<fnVars, sysVars, revision, isDevelopment, now, activePrintJobs>>

\* part_000: activePrintJobs.has(printerInfo.name)  ->  409
ThermalBusy(r, missing, p, t) ==
  /\ Locking
  /\ Arriving(r)
  /\ ~ThermalRejects(missing)
  /\ ReadClock(t)
  /\ IsBusy(activePrintJobs, BodyName(missing, p))
  /\ jobs' = [jobs EXCEPT ![r] =
       [@ EXCEPT !.pc = "done", !.endpoint = "thermal", !.missing = missing,
                 !.name = BodyName(missing, p),
                 !.jobKey = MakeJobKey(BodyName(missing, p), t),
                 !.message = "Please wait for the current print job to complete",
                 !.log = <<"409">>]]
  /\ UNCHANGED <<fnVars, sysVars, revision, isDevelopment, activePrintJobs>>

\* From the render to the first await on a pending promise; reg0 is the
\* registry as the admission left it, j0 the handler's locals at that point.
\*   outcome "render-throws":    buildThermalReceipt throws an error with message m
\*   outcome "transport-throws": net.connect / printer.printDirect throws
\*   outcome "ok":               the transmission is under way
ThermalRun(r, j0, reg0, outcome, m) ==
  CASE outcome = "render-throws" ->
         Finish(r, [j0 EXCEPT !.cause = "render-threw"], reg0, "500",
                ErrMsg(m, "Unknown thermal print error occurred"))
    [] outcome = "ok" /\ isDevelopment ->
         /\ activePrintJobs' = reg0
         /\ jobs' = [jobs EXCEPT ![r] =
              [j0 EXCEPT !.pc = "transmitting", !.timeout = "armed",
                         !.socket = "connecting",
                         !.log = @ \o <<"render", "connect">>]]
    [] outcome = "ok" /\ ~isDevelopment ->
         /\ activePrintJobs' = reg0
         /\ jobs' = [jobs EXCEPT ![r] =
              [j0 EXCEPT !.pc = "transmitting", !.timeout = "armed",
                         !.native = "printDirect",
                         !.log = @ \o <<"render", "printDirect">>]]
    [] outcome = "transport-throws" /\ isDevelopment ->
         \* printer-api.js catches and clears the timer; in part_000 the
         \* throw leaves the executor with the timer still armed
         Finish(r, [j0 EXCEPT !.timeout = IF Locking THEN "armed" ELSE "cleared",
                              !.cause = "connect-threw",
                              !.log = @ \o <<"render", "connect">>],
                reg0, "500",
                IF Locking THEN ErrMsg(m, "Unknown thermal print error occurred")
                           ELSE "Failed to create TCP connection")
    [] outcome = "transport-throws" /\ ~isDevelopment ->
         Finish(r, [j0 EXCEPT !.timeout = "cleared", !.cause = "printDirect-threw",
                              !.log = @ \o <<"render", "printDirect">>],
                reg0, "500", "Failed to initialize print")

Outcomes == {"ok", "render-throws", "transport-throws"}

\* part_000: record the job, render, start the transmission.
ThermalAdmit(r, missing, p, t, outcome, m) ==
  /\ Locking
  /\ Arriving(r)
  /\ ~ThermalRejects(missing)
  /\ ReadClock(t)
  /\ ~IsBusy(activePrintJobs, BodyName(missing, p))
  /\ ThermalRun(r, [jobs[r] EXCEPT !.endpoint = "thermal", !.missing = missing,
                                   !.name = BodyName(missing, p),
                                   !.jobKey = MakeJobKey(BodyName(missing, p), t),
                                   !.log = <<"set">>],
                SetJob(activePrintJobs, BodyName(missing, p),
                       MakeJobKey(BodyName(missing, p), t)), outcome, m)
  /\ UNCHANGED <<fnVars, sysVars, revision, isDevelopment>>

\* printer-api.js: no registry; render, start the transmission.
ApiThermalStart(r, missing, p, t, outcome, m) ==
  /\ ~Locking
  /\ Arriving(r)
  /\ ~ThermalRejects(missing)
  /\ ReadClock(t)
  /\ ThermalRun(r, [jobs[r] EXCEPT !.endpoint = "thermal", !.missing = missing,
                                   !.name = BodyName(missing, p),
                                   !.jobKey = MakeJobKey(BodyName(missing, p), t)],
                activePrintJobs, outcome, m)
  /\ UNCHANGED <<fnVars, sysVars, revision, isDevelopment>>

\* socket.on('connect'): clear the timer, write the buffer, end the socket;
\* a throwing write rejects instead.
SocketConnect(r, writeThrows) ==
  /\ jobs[r].socket = "connecting"
  /\ IF writeThrows
       THEN Settle(r, [jobs[r] EXCEPT !.timeout = ClearTimeout(@), !.socket = "open",
                                      !.cause = IF jobs[r].pc = "transmitting"
                                                  THEN "write-threw" ELSE @],
                   "500", "Failed to write to emulator")
       ELSE /\ jobs' = [jobs EXCEPT ![r] =
                 [@ EXCEPT !.timeout = ClearTimeout(@), !.socket = "ended",
                           !.log = @ \o <<"write">>]]
            /\ UNCHANGED activePrintJobs
  /\ UNCHANGED <<fnVars, sysVars, revision, isDevelopment, now>>

\* socket.on('error'): clear the timer, destroy the socket, reject.
SocketError(r) ==
  /\ jobs[r].socket \in {"connecting", "open", "ended"}
  /\ Settle(r, [jobs[r] EXCEPT !.timeout = ClearTimeout(@), !.socket = "destroyed",
                               !.cause = IF jobs[r].pc = "transmitting"
                                           THEN "socket-error" ELSE @],
            "500", "Failed to connect to emulator")
  /\ UNCHANGED <<fnVars, sysVars, revision, isDevelopment, now>>

\* socket.on('close'): clear the timer, resolve.  The socket closes once the
\* peer has closed its side too, or after destroy().
SocketClose(r) ==
  /\ jobs[r].socket \in {"open", "ended", "destroyed"}
  /\ Settle(r, [jobs[r] EXCEPT !.timeout = ClearTimeout(@), !.socket = "closed",
                               !.cause = IF jobs[r].pc = "transmitting"
                                           THEN "socket-close" ELSE @],
            "204", "")
  /\ UNCHANGED <<fnVars, sysVars, revision, isDevelopment, now>>

\* (mutant) the timer resolves
ThermalTimeoutResolves(r) ==
  /\ jobs[r].endpoint = "thermal"
  /\ jobs[r].timeout = "armed"
  /\ Settle(r, [jobs[r] EXCEPT !.timeout = "fired",
                               !.cause = IF jobs[r].pc = "transmitting"
                                           THEN "timeout" ELSE @],
            "204", "")
  /\ UNCHANGED <<fnVars, sysVars, revision, isDevelopment, now>>

\* The timer of POST /print-thermal fires (10 s emulator, 30 s raw print): reject.
ThermalTimeout(r) ==
  /\ jobs[r].endpoint = "thermal"
  /\ jobs[r].timeout = "armed"
  /\ Settle(r, [jobs[r] EXCEPT !.timeout = "fired",
                               !.cause = IF jobs[r].pc = "transmitting"
                                           THEN "timeout" ELSE @],
            "500", IF isDevelopment THEN "TCP connection timed out after 10 seconds"
                                    ELSE "Print operation timed out after 30 seconds")
  /\ UNCHANGED <<fnVars, sysVars, revision, isDevelopment, now>>

\* printDirect's success callback: clear the timer, resolve.
RawSuccess(r) ==
  /\ jobs[r].native = "printDirect"
  /\ Settle(r, [jobs[r] EXCEPT !.timeout = ClearTimeout(@),
                               !.cause = IF jobs[r].pc = "transmitting"
                                           THEN "raw-success" ELSE @],
            "204", "")
  /\ UNCHANGED <<fnVars, sysVars, revision, isDevelopment, now>>

\* printDirect's error callback: clear the timer, reject.
RawError(r) ==
  /\ jobs[r].native = "printDirect"
  /\ Settle(r, [jobs[r] EXCEPT !.timeout = ClearTimeout(@),
                               !.cause = IF jobs[r].pc = "transmitting"
                                           THEN "raw-error" ELSE @],
            "500", "Print failed")
  /\ UNCHANGED <<fnVars, sysVars, revision, isDevelopment, now>>

\* ------------------------------------------------------------------- Next
Next ==
  \/ \E r \in Req : \E missing \in PrintShapes : PrintInvalid(r, missing)
  \/ \E r \in Req : \E p \in Printers : \E t \in 0..MaxClock :
        \E missing \in PrintShapes : PrintBusy(r, missing, p, t)
  \/ \E r \in Req : \E p \in Printers : \E t \in 0..MaxClock :
        \E missing \in PrintShapes : PrintAdmit(r, missing, p, t)
  \/ \E r \in Req : \E p \in Printers : \E t \in 0..MaxClock :
        \E missing \in PrintShapes : ApiPrintStart(r, missing, p, t)
  \/ \E r \in Req : PrintLoadResolved(r)
  \/ \E r \in Req : \E m \in ErrMsgs : PrintLoadRejected(r, m)
  \/ \E r \in Req : \E success \in BOOLEAN : PrintCallback(r, success)
  \/ \E r \in Req : PrintTimeout(r)
  \/ \E r \in Req : \E missing \in ThermalShapes : ThermalInvalid(r, missing)
  \/ \E r \in Req : \E p \in Printers : \E t \in 0..MaxClock :
        \E missing \in ThermalShapes : ThermalBusy(r, missing, p, t)
  \/ \E r \in Req : \E p \in Printers : \E t \in 0..MaxClock : \E missing \in ThermalShapes :
        \E o \in Outcomes : \E m \in ErrMsgs : ThermalAdmit(r, missing, p, t, o, m)
  \/ \E r \in Req : \E p \in Printers : \E t \in 0..MaxClock : \E missing \in ThermalShapes :
        \E o \in Outcomes : \E m \in ErrMsgs : ApiThermalStart(r, missing, p, t, o, m)
  \/ \E r \in Req : \E w \in BOOLEAN : SocketConnect(r, w)
  \/ \E r \in Req : SocketError(r)
  \/ \E r \in Req : SocketClose(r)
  \/ \E r \in Req : ThermalTimeout(r)
  \/ \E r \in Req : RawSuccess(r)
  \/ \E r \in Req : RawError(r)

Spec == Init /\ [][Next]_vars

TypeOK ==
  /\ revision \in Revisions
  /\ isDevelopment \in BOOLEAN
  /\ now \in 0..MaxClock
  /\ \A n \in Names : activePrintJobs[n] = NoJob \/ activePrintJobs[n] \in Names \X (0..MaxClock)
  /\ \A r \in Req : jobs[r].pc \in {"new", "loading", "printing", "transmitting", "done"}

\* Timers fire: the only events the agent itself guarantees.  What the page
\* load, the native callbacks and the emulator do is up to them.
FairSpec ==
  /\ Init /\ [][Next]_vars
  /\ \A r \in Req : WF_vars(PrintTimeout(r)) /\ WF_vars(ThermalTimeout(r))

\* ------------------------------------------------------ port arbitration
\* One action is one run of the starting instance from the event that resumes
\* ensurePortsAvailable or startApi to the next await on something pending.
\* boot.pc names what is pending:
\*   probe, recheck, final   isPortAvailable at lines 597, 606, 618
\*   graceful                the POST /shutdown of attemptGracefulShutdown
\*   gracefulWait            its setTimeout(() => resolve(true), 2000)
\*   netstat                 the exec of killProcessOnPort (win32)
\*   create                  nothing: ensurePortsAvailable returned true and the
\*                           servers are created next; other processes run on
\*   backoff                 setTimeout(() => startApi(webContents), 3000)
\*   listening, listenError  the outcome of api.listen(21321, ...)
\*   running                 the listen callback has run
\*   failed                  'api-startup-failed' was sent
\*   silent                  nothing is pending, nothing was sent
\*   killed                  the process was terminated by taskkill

\* isPortAvailable(port): a test server binds the port; EADDRINUSE means busy.
IsPortAvailable(own, p) == own[p] = "free"

\* The port of the current iteration of for (const port of ports).
ThePort(b) == PortList[b.port]

\* The listeners of a process are closed when it goes away.
FreeAll(own, who) == [p \in PortSet |-> IF own[p] = who THEN "free" ELSE own[p]]

\* A listen on a port nobody holds succeeds.
Bind(own, p) == IF own[p] = "free" THEN [own EXCEPT ![p] = "new"] ELSE own

\* (mutant) one attempt too many
MayRetryOnceMore(n) == n <= MAX_STARTUP_ATTEMPTS

\* apiStartupAttempts < MAX_STARTUP_ATTEMPTS
MayRetry(n) == n < MAX_STARTUP_ATTEMPTS

\* if (!portsAvailable) { apiStartupAttempts++; retry or report }
PortsBusy(b) ==
  LET n == b.apiStartupAttempts + 1 IN
  IF MayRetry(n)
    THEN [b EXCEPT !.apiStartupAttempts = n, !.pc = "backoff", !.timer = BACKOFF_MS]
    ELSE [b EXCEPT !.apiStartupAttempts = n, !.pc = "failed", !.reported = @ + 1]

\* catch (error) { apiStartupAttempts++; retry or report }
CatchError(b) ==
  LET n == b.apiStartupAttempts + 1 IN
  IF MayRetry(n)
    THEN [b EXCEPT !.apiStartupAttempts = n, !.pc = "backoff", !.timer = BACKOFF_MS]
    ELSE [b EXCEPT !.apiStartupAttempts = n, !.pc = "failed", !.reported = @ + 1]

\* httpServer.on('error'), err.code === 'EADDRINUSE': retry, or nothing at all
ListenFailed(b) ==
  LET n == b.apiStartupAttempts + 1 IN
  IF MayRetry(n)
    THEN [b EXCEPT !.apiStartupAttempts = n, !.pc = "backoff", !.timer = BACKOFF_MS]
    ELSE [b EXCEPT !.apiStartupAttempts = n, !.pc = "silent"]

\* Whether the code between the last probe and the creation of the servers
\* throws (express(), the middleware).
Throws == {"none", "throws"}

\* wss = new WebSocket.Server({ port: 21322 }): the bind fails when the port is
\* taken; the 'error' event has no listener and startApi goes on.
WssCreated(b, own) ==
  [b EXCEPT !.wss = IF own[WS_PORT] = "free" THEN "bound" ELSE "error"]

\* let heartbeatInterval = null; if (heartbeatInterval) clearInterval(...);
\* heartbeatInterval = setInterval(..., 30000): the variable is a local of this
\* call of startApi, so the interval of an earlier call is out of reach, and
\* wss.on('close') clears the interval only when this server is closed.
HeartbeatStarted(b) == [b EXCEPT !.intervals = @ + 1]

\* Lines 655-1001: the services are created and both binds are issued in the
\* same run; the outcome of api.listen arrives as an event.
StartServices(b, throws) ==
  LET own1 == Bind(owner, WS_PORT)
      b1 == HeartbeatStarted(WssCreated(b, owner))
  IN IF throws = "throws"
       THEN boot' = CatchError(b) /\ owner' = owner
       ELSE /\ owner' = Bind(own1, HTTP_PORT)
            /\ boot' = [b1 EXCEPT !.pc = IF own1[HTTP_PORT] = "free"
                                           THEN "listening" ELSE "listenError"]

\* The port of this iteration is free: continue with the next port, or leave
\* ensurePortsAvailable with true.  The test server of the last probe is closed
\* by then and the servers are not created yet: until startApi has gone
\* through lines 655-688 the ports belong to whoever binds them.
NextPort(b) ==
  [b EXCEPT !.pc = IF b.port < Len(PortList) THEN "probe" ELSE "create",
            !.port = IF b.port < Len(PortList) THEN @ + 1 ELSE @]

\* (mutant) netstat and taskkill are run on every platform
KillProcessOnPortEverywhere(b) ==
  [b EXCEPT !.killed = @ \cup {ThePort(b)}, !.pc = "netstat"]

\* await killProcessOnPort(port): off Windows it resolves false at once and the
\* final probe follows; on Windows it runs netstat.
KillProcessOnPort(b) ==
  LET b1 == [b EXCEPT !.killed = @ \cup {ThePort(b)}] IN
  IF platform # "win32" THEN [b1 EXCEPT !.pc = "final"] ELSE [b1 EXCEPT !.pc = "netstat"]

\* A probe has found the port of this iteration free.
FoundFree(b) ==
  IF ThePort(b) \in b.killed
    THEN [b EXCEPT !.freeAfterKill = @ \cup {ThePort(b)}]
    ELSE b

\* startApi is entered: ensurePortsAvailable probes the first port.
EnterStartApi(b) ==
  [b EXCEPT !.pc = "probe", !.port = 1, !.calls = @ + 1, !.timer = 0]

\* app.whenReady().then(... startApi(shellWindow.webContents) ...)
StartApi ==
  /\ boot.pc = "idle"
  /\ boot' = EnterStartApi(boot)
  /\ UNCHANGED <<fnVars, jobVars, platform, owner, old, intrusions, hand, clients>>

\* The retry timer fires.
RetryTimer ==
  /\ boot.pc = "backoff"
  /\ boot' = EnterStartApi(boot)
  /\ UNCHANGED <<fnVars, jobVars, platform, owner, old, intrusions, hand, clients>>

\* const available = await isPortAvailable(port)
ProbeResult ==
  /\ boot.pc = "probe"
  /\ boot' = IF IsPortAvailable(owner, ThePort(boot))
               THEN NextPort(FoundFree(boot))
               ELSE [boot EXCEPT !.pc = "graceful"]
  /\ UNCHANGED <<fnVars, jobVars, platform, owner, old, intrusions, hand, clients>>

\* if (!portsAvailable) was false: the rest of startApi up to api.listen.
CreateServices(throws) ==
  /\ boot.pc = "create"
  /\ StartServices(boot, throws)
  /\ UNCHANGED <<fnVars, jobVars, platform, old, intrusions, hand, clients>>

\* Whether the holder of the port sends a response to POST /shutdown.  An
\* agent answers on its HTTP port (200, or 404 without the route) and on its
\* WebSocket port (426); what an unrelated process does is up to it.
Answers(p) ==
  \/ owner[p] = "old" /\ old.responsive
  \/ owner[p] = "new"
  \/ owner[p] = "foreign"

\* Whether the request can end in 'error' or 'timeout'.
Unanswered(p) ==
  \/ owner[p] = "old" /\ ~old.responsive
  \/ owner[p] = "foreign"
  \/ owner[p] = "free"

\* (mutant) the response is sent and no teardown follows
ShutdownWithoutTeardown(o) == [o EXCEPT !.log = Append(@, "200")]

\* api.post('/shutdown'): res.sendStatus(200), then the 500 ms timer is armed.
Shutdown(o) == [o EXCEPT !.teardown = "armed", !.log = Append(@, "200")]

\* The holder answered: resolve(true) is 2 s away.
GracefulAnswered ==
  /\ boot.pc = "graceful"
  /\ Answers(ThePort(boot))
  /\ boot' = [boot EXCEPT !.pc = "gracefulWait", !.answered = @ \cup {ThePort(boot)}]
  /\ old' = IF owner[ThePort(boot)] = "old" /\ ThePort(boot) = HTTP_PORT /\ old.kind = "agent"
              THEN Shutdown(old) ELSE old
  /\ UNCHANGED <<fnVars, jobVars, platform, owner, intrusions, hand, clients>>

\* 'error' or 'timeout': resolve(false), and killProcessOnPort is called.
GracefulFailed ==
  /\ boot.pc = "graceful"
  /\ Unanswered(ThePort(boot))
  /\ boot' = KillProcessOnPort([boot EXCEPT !.unanswered = @ \cup {ThePort(boot)}])
  /\ UNCHANGED <<fnVars, jobVars, platform, owner, old, intrusions, hand, clients>>

\* The 2 s are over.  A 500 ms timer armed before the response was sent has
\* fired by then.
GracefulWaitDone ==
  /\ boot.pc = "gracefulWait"
  /\ old.teardown # "armed"
  /\ boot' = [boot EXCEPT !.pc = "recheck"]
  /\ UNCHANGED <<fnVars, jobVars, platform, owner, old, intrusions, hand, clients>>

\* const nowAvailable = await isPortAvailable(port)
RecheckResult ==
  /\ boot.pc = "recheck"
  /\ boot' = IF IsPortAvailable(owner, ThePort(boot))
               THEN NextPort(FoundFree(boot))
               ELSE KillProcessOnPort(boot)
  /\ UNCHANGED <<fnVars, jobVars, platform, owner, old, intrusions, hand, clients>>

\* What taskkill /F does to the processes netstat listed.
KillOutcomes == {"killed", "denied"}

\* A terminated incumbent: its timers are gone with it.
Terminated(o) == [o EXCEPT !.state = "killed", !.teardown = "none", !.conn = "none"]

\* netstat and taskkill of killProcessOnPort on Windows, and the 1.5 s after
\* them.  The process found on the port may be this one: the WebSocket server
\* of an earlier attempt is still bound.
KillResult(outcome) ==
  /\ boot.pc = "netstat"
  /\ LET p == ThePort(boot)
         victim == owner[p]
     IN CASE victim = "free" \/ (outcome = "denied" /\ victim # "new") ->
               /\ boot' = [boot EXCEPT !.pc = "final"]
               /\ UNCHANGED <<owner, old>>
          [] victim = "old" /\ outcome = "killed" ->
               /\ boot' = [boot EXCEPT !.pc = "final"]
               /\ owner' = FreeAll(owner, "old")
               /\ old' = Terminated(old)
          [] victim = "foreign" /\ outcome = "killed" ->
               /\ boot' = [boot EXCEPT !.pc = "final"]
               /\ owner' = [owner EXCEPT ![p] = "free"]
               /\ old' = old
          [] OTHER ->
               /\ boot' = [boot EXCEPT !.pc = "killed", !.intervals = 0]
               /\ owner' = FreeAll(owner, "new")
               /\ old' = old
  /\ UNCHANGED <<fnVars, jobVars, platform, intrusions, hand, clients>>

\* (mutant) the outcome of the final check is ignored
FinalResultIgnored ==
  /\ boot.pc = "final"
  /\ boot' = NextPort(boot)
  /\ UNCHANGED <<fnVars, jobVars, platform, owner, old, intrusions, hand, clients>>

\* const finalCheck = await isPortAvailable(port)
FinalResult ==
  /\ boot.pc = "final"
  /\ boot' = IF IsPortAvailable(owner, ThePort(boot))
               THEN NextPort(FoundFree(boot))
               ELSE PortsBusy([boot EXCEPT !.stillBusy = @ + 1])
  /\ UNCHANGED <<fnVars, jobVars, platform, owner, old, intrusions, hand, clients>>

\* The callback of api.listen.
ListenCallback ==
  /\ boot.pc = "listening"
  /\ boot' = [boot EXCEPT !.pc = "running", !.apiStartupAttempts = 0]
  /\ UNCHANGED <<fnVars, jobVars, platform, owner, old, intrusions, hand, clients>>

\* httpServer emits 'error' with EADDRINUSE.
ListenError ==
  /\ boot.pc = "listenError"
  /\ boot' = ListenFailed(boot)
  /\ UNCHANGED <<fnVars, jobVars, platform, owner, old, intrusions, hand, clients>>

\* ------------------------------------------------ the other processes
MaxIntrusions == 1

\* A process that has nothing to do with the agent binds a free service port.
Intrude(p) ==
  /\ intrusions < MaxIntrusions
  /\ owner[p] = "free"
  /\ owner' = [owner EXCEPT ![p] = "foreign"]
  /\ intrusions' = intrusions + 1
  /\ UNCHANGED <<fnVars, jobVars, platform, old, boot, hand, clients>>

\* Such a process closes its listener.
Depart(p) ==
  /\ owner[p] = "foreign"
  /\ owner' = [owner EXCEPT ![p] = "free"]
  /\ UNCHANGED <<fnVars, jobVars, platform, old, intrusions, boot, hand, clients>>

\* The 500 ms timer of the incumbent's /shutdown handler: wss.close(), then
\* httpServer.close(() => process.exit(0)).  The listeners are closed at once;
\* the callback runs when the last connection of the HTTP server has ended.
OldTeardown ==
  /\ old.teardown = "armed"
  /\ old' = [old EXCEPT
       !.teardown = "fired",
       !.state = IF old.conn = "none" THEN "exited" ELSE "closing",
       !.log = @ \o <<"wss.close", "httpServer.close">>
                 \o (IF old.conn = "none" THEN <<"exit">> ELSE <<>>)]
  /\ owner' = FreeAll(owner, "old")
  /\ UNCHANGED <<fnVars, jobVars, platform, intrusions, boot, hand, clients>>

\* A request in flight on the incumbent's HTTP server is answered and its
\* connection ends.
OldConnEnd ==
  /\ old.conn = "open"
  /\ old' = IF old.state = "closing"
              THEN [old EXCEPT !.conn = "none", !.state = "exited", !.log = Append(@, "exit")]
              ELSE [old EXCEPT !.conn = "none"]
  /\ UNCHANGED <<fnVars, jobVars, platform, owner, intrusions, boot, hand, clients>>

\* The incumbents a starting instance may meet.
Incumbents ==
  { o \in [ kind : {"agent", "legacy"}, responsive : BOOLEAN, state : {"running"},
            teardown : {"none"}, conn : {"none", "open", "hung"},
            held : SUBSET PortSet, log : {<<>>} ] :
      o.kind = "legacy" => o.conn = "none" }

\* A launch that got the single-instance lock: the ports are free or held by
\* an incumbent agent or by unrelated processes.
StartInit ==
  /\ JobsIdle
  /\ platform \in Platforms
  /\ owner \in [PortSet -> {"free", "old", "foreign"}]
  /\ old \in IF \E p \in PortSet : owner[p] = "old"
               THEN {o \in Incumbents : o.held = {p \in PortSet : owner[p] = "old"}}
               ELSE {NoOld}
  /\ intrusions = 0
  /\ boot = NewBoot
  /\ hand = Primary
  /\ clients = [c \in Clients |-> NoClient]

StartNext ==
  \/ StartApi
  \/ RetryTimer
  \/ ProbeResult
  \/ \E throws \in Throws : CreateServices(throws)
  \/ GracefulAnswered
  \/ GracefulFailed
  \/ GracefulWaitDone
  \/ RecheckResult
  \/ \E outcome \in KillOutcomes : KillResult(outcome)
  \/ FinalResult
  \/ ListenCallback
  \/ ListenError
  \/ \E p \in PortSet : Intrude(p)
  \/ \E p \in PortSet : Depart(p)
  \/ OldTeardown
  \/ OldConnEnd

StartSpec == StartInit /\ [][StartNext]_vars

\* The agent's own timers and awaited operations come to an end; so does a
\* request that is not hung.  What unrelated processes do is up to them.
FairStartSpec ==
  /\ StartInit /\ [][StartNext]_vars
  /\ WF_vars(StartApi) /\ WF_vars(RetryTimer)
  /\ WF_vars(ProbeResult)
  /\ WF_vars(\E throws \in Throws : CreateServices(throws))
  /\ WF_vars(GracefulAnswered \/ GracefulFailed)
  /\ WF_vars(GracefulWaitDone)
  /\ WF_vars(RecheckResult)
  /\ WF_vars(\E outcome \in KillOutcomes : KillResult(outcome))
  /\ WF_vars(FinalResult)
  /\ WF_vars(ListenCallback) /\ WF_vars(ListenError)
  /\ WF_vars(OldTeardown) /\ WF_vars(OldConnEnd)

\* ------------------------------------------------------ instance takeover
\* The launch code of a process that did not get the single-instance lock.
\* hand.pc names what is pending:
\*   request    the POST /shutdown to 127.0.0.1:21321 (timeout 3 s)
\*   wait       the 3 s timer after the response
\*   netstat    the exec of forceKillOldInstance (win32)
\*   killwait   the 2 s timer after taskkill
\*   relaunch   app.relaunch(); app.quit() was called
\*   quit       app.quit() was called
\*   gone       the process has exited and nothing was relaunched
\* The same process runs app.whenReady().then(...) and with it startApi.
MaxLaunches == 2

LaunchCodes == {"part_001", "part_002"}

\* app.requestSingleInstanceLock() fails while the incumbent process is there.
LockHeld == old.state \in {"running", "closing"}

\* Whether the holder of 21321 answers the request of the launch code.
HandoffAnswers ==
  \/ owner[HTTP_PORT] = "old" /\ old.responsive
  \/ owner[HTTP_PORT] = "foreign"

\* Whether that request can end in 'error' or 'timeout'.
HandoffUnanswered ==
  \/ owner[HTTP_PORT] = "old" /\ ~old.responsive
  \/ owner[HTTP_PORT] \in {"foreign", "free", "new"}

\* The response callback: the process waits 3 s for the old instance.
HandoffAnswered ==
  /\ hand.pc = "request"
  /\ HandoffAnswers
  /\ hand' = [hand EXCEPT !.pc = "wait", !.log = Append(@, "answered")]
  /\ old' = IF owner[HTTP_PORT] = "old" /\ old.kind = "agent" THEN Shutdown(old) ELSE old
  /\ UNCHANGED <<fnVars, jobVars, platform, owner, intrusions, boot, clients>>

\* forceKillOldInstance(): off Windows app.quit(); on Windows netstat is run.
\* The earlier launch code quits on 'error' and on 'timeout'.
ForceKillOldInstance(h) ==
  IF h.revision = "part_002"
    THEN [h EXCEPT !.pc = IF platform = "win32" THEN "netstat" ELSE "quit",
                   !.forced = @ + 1,
                   !.log = Append(@, "unanswered")]
    ELSE [h EXCEPT !.pc = "quit", !.log = Append(@, "unanswered")]

\* The request was destroyed by the 'timeout' handler before a response: it
\* emits 'error' (socket hang up) and the 'error' handler runs as well.  Its
\* forceKillOldInstance() takes the same way as the one just started.
ErrorAfterDestroy(h) ==
  IF h.revision = "part_002" THEN [h EXCEPT !.forced = @ + 1] ELSE h

\* How the request ends without a response.  It times out only when something
\* took the connection and does not answer.
HandoffEvents == {"error", "timeout"}

\* req.on('error'): forceKillOldInstance().
\* req.on('timeout'): req.destroy(); forceKillOldInstance().
HandoffFailed(event) ==
  /\ hand.pc = "request"
  /\ HandoffUnanswered
  /\ event = "timeout" => owner[HTTP_PORT] \in {"old", "foreign"}
  /\ hand' = IF event = "timeout"
               THEN ErrorAfterDestroy(ForceKillOldInstance(hand))
               ELSE ForceKillOldInstance(hand)
  /\ UNCHANGED <<fnVars, jobVars, platform, owner, old, intrusions, boot, clients>>

\* The callback of netstat -ano | findstr ":21321 ": nothing found, quit;
\* otherwise taskkill /F for every pid and relaunch 2 s later.
HandoffNetstat(outcome) ==
  /\ hand.pc = "netstat"
  /\ LET victim == owner[HTTP_PORT]
     IN CASE victim = "free" ->
               /\ hand' = [hand EXCEPT !.pc = "quit"]
               /\ UNCHANGED <<owner, old, boot>>
          [] victim = "new" ->
               /\ hand' = [hand EXCEPT !.pc = "gone", !.log = Append(@, "taskkill")]
               /\ boot' = [boot EXCEPT !.pc = "killed"]
               /\ owner' = FreeAll(owner, "new")
               /\ old' = old
          [] victim = "old" /\ outcome = "killed" ->
               /\ hand' = [hand EXCEPT !.pc = "killwait", !.log = Append(@, "taskkill")]
               /\ owner' = FreeAll(owner, "old")
               /\ old' = Terminated(old)
               /\ boot' = boot
          [] victim = "foreign" /\ outcome = "killed" ->
               /\ hand' = [hand EXCEPT !.pc = "killwait", !.log = Append(@, "taskkill")]
               /\ owner' = [owner EXCEPT ![HTTP_PORT] = "free"]
               /\ UNCHANGED <<old, boot>>
          [] OTHER ->
               /\ hand' = [hand EXCEPT !.pc = "killwait", !.log = Append(@, "taskkill")]
               /\ UNCHANGED <<owner, old, boot>>
  /\ UNCHANGED <<fnVars, jobVars, platform, intrusions, clients>>

\* The 3 s timer after the response, or the 2 s timer after taskkill:
\* app.relaunch(); app.quit().  A 500 ms timer armed by the response has fired.
HandoffTimer ==
  /\ hand.pc \in {"wait", "killwait"}
  /\ old.teardown # "armed"
  /\ hand' = [hand EXCEPT !.pc = "relaunch"]
  /\ UNCHANGED <<fnVars, jobVars, platform, owner, old, intrusions, boot, clients>>

\* The launch code of a fresh process.
LaunchCode(h) ==
  IF LockHeld
    THEN [h EXCEPT !.pc = "request", !.launches = @ + 1, !.forced = 0,
                   !.log = Append(@, "POST")]
    ELSE [h EXCEPT !.pc = "primary", !.launches = @ + 1, !.forced = 0]

\* The process exits after app.quit(); with app.relaunch() a fresh process is
\* launched in its place.
ProcessExit ==
  /\ \/ /\ hand.pc = "quit"
        /\ hand' = [hand EXCEPT !.pc = "gone"]
        /\ boot' = [boot EXCEPT !.pc = "exited", !.timer = 0]
     \/ /\ hand.pc = "relaunch"
        /\ hand.launches < MaxLaunches
        /\ hand' = LaunchCode(hand)
        /\ boot' = NewBoot
  /\ owner' = FreeAll(owner, "new")
  /\ UNCHANGED <<fnVars, jobVars, platform, old, intrusions, clients>>

\* A launch that did not get the lock: the incumbent is there, with the ports
\* it holds.
HandoffInit ==
  /\ JobsIdle
  /\ platform \in Platforms
  /\ owner \in [PortSet -> {"free", "old"}]
  /\ old \in {o \in Incumbents : o.held = {p \in PortSet : owner[p] = "old"}}
  /\ intrusions = 0
  /\ boot = NewBoot
  /\ hand \in [pc : {"request"}, launches : {1}, forced : {0}, revision : LaunchCodes, log : {<<"POST">>}]
  /\ clients = [c \in Clients |-> NoClient]

HandoffNext ==
  \/ HandoffAnswered
  \/ \E event \in HandoffEvents : HandoffFailed(event)
  \/ \E outcome \in KillOutcomes : HandoffNetstat(outcome)
  \/ HandoffTimer
  \/ ProcessExit
  \/ StartNext

HandoffSpec == HandoffInit /\ [][HandoffNext]_vars

\* ------------------------------------------------------------- heartbeat
\* wss.on('connection'): socket.isAlive = true
Connect(c) ==
  /\ clients[c].state = "absent"
  /\ clients' = [clients EXCEPT ![c] = [NoClient EXCEPT !.state = "open",
                                                        !.isAlive = TRUE,
                                                        !.fresh = TRUE]]
  /\ UNCHANGED <<fnVars, jobVars, platform, owner, old, intrusions, boot, hand>>

\* (mutant) the pong is not recorded
PongIgnored(c) ==
  /\ clients[c].state = "open"
  /\ clients' = [clients EXCEPT ![c].pinged = FALSE, ![c].ponged = TRUE]
  /\ UNCHANGED <<fnVars, jobVars, platform, owner, old, intrusions, boot, hand>>

\* socket.on('pong', () => { socket.isAlive = true; })
Pong(c) ==
  /\ clients[c].state = "open"
  /\ clients' = [clients EXCEPT ![c].isAlive = TRUE,
                                ![c].pinged = FALSE,
                                ![c].ponged = TRUE]
  /\ UNCHANGED <<fnVars, jobVars, platform, owner, old, intrusions, boot, hand>>

\* The client closes the connection.
Disconnect(c) ==
  /\ clients[c].state = "open"
  /\ clients' = [clients EXCEPT ![c].state = "closed"]
  /\ UNCHANGED <<fnVars, jobVars, platform, owner, old, intrusions, boot, hand>>

\* What the interval callback does to one member of wss.clients:
\* if (!ws.isAlive) return ws.terminate(); ws.isAlive = false; ws.ping();
Beat(ws) ==
  IF ~ws.isAlive
    THEN [ws EXCEPT !.state = "terminated", !.missed = TRUE]
    ELSE [ws EXCEPT !.isAlive = FALSE, !.pinged = TRUE, !.ponged = FALSE, !.fresh = FALSE]

\* The 30 s interval fires.
HeartbeatTick ==
  /\ boot.wss = "bound"
  /\ clients' = [c \in Clients |->
                   IF clients[c].state = "open" THEN Beat(clients[c]) ELSE clients[c]]
  /\ UNCHANGED <<fnVars, jobVars, platform, owner, old, intrusions, boot, hand>>

\* The services are up and no client has connected.
HeartbeatInit == JobsIdle /\ SysIdle

HeartbeatNext ==
  \/ \E c \in Clients : Connect(c)
  \/ \E c \in Clients : Pong(c)
  \/ \E c \in Clients : Disconnect(c)
  \/ HeartbeatTick

HeartbeatSpec == HeartbeatInit /\ [][HeartbeatNext]_vars

\* ------------------------------------------------------------ text layout
\* Strings are sequences of characters; positions are counted from 0 as in
\* JavaScript, so s[i] of the code is s[i + 1] here.
Letters == {"a", "b"}
Space == " "
Chars == Letters \cup {Space}

MaxText == 5         \* longest text handed to wrapText
MaxWidth == 3        \* widest line asked of wrapText

Min(a, b) == IF a < b THEN a ELSE b
Max(a, b) == IF a > b THEN a ELSE b

\* s.substring(start, end): both are clamped to 0..s.length, and swapped when
\* start is behind end.
Substring(s, start, end) ==
  LET a == Max(0, Min(start, Len(s)))
      b == Max(0, Min(end, Len(s)))
  IN SubSeq(s, Min(a, b) + 1, Max(a, b))

\* s.substring(start)
SubstringFrom(s, start) == Substring(s, start, Len(s))

\* s.lastIndexOf(' '), -1 when there is none
LastIndexOfSpace(s) ==
  LET at == {i \in 1..Len(s) : s[i] = Space}
  IN IF at = {} THEN -1 ELSE (CHOOSE i \in at : \A j \in at : j <= i) - 1

\* s.trim()
Trim(s) ==
  LET ink == {i \in 1..Len(s) : s[i] # Space}
  IN IF ink = {} THEN <<>>
     ELSE SubSeq(s, CHOOSE i \in ink : \A j \in ink : i <= j,
                    CHOOSE i \in ink : \A j \in ink : j <= i)

\* ' '.repeat(n)
Spaces(n) == [i \in 1..n |-> Space]

\* (mutant) the break is put behind the last space, found or not
BreakPointBehindSpace(remaining, maxWidth) ==
  LastIndexOfSpace(Substring(remaining, 0, maxWidth)) + 1

\* let breakPoint = maxWidth; if (lastSpace > 0) breakPoint = lastSpace
BreakPoint(remaining, maxWidth) ==
  LET lastSpace == LastIndexOfSpace(Substring(remaining, 0, maxWidth))
  IN IF lastSpace > 0 THEN lastSpace ELSE maxWidth

\* lines.push(remaining.substring(0, breakPoint).trim())
PushedLine(remaining, breakPoint) == Trim(Substring(remaining, 0, breakPoint))

\* (mutant) the character at the break is skipped, space or not
RemainderSkipsOne(remaining, breakPoint) ==
  Trim(SubstringFrom(remaining, breakPoint + 1))

\* remaining = remaining.substring(breakPoint).trim()
Remainder(remaining, breakPoint) == Trim(SubstringFrom(remaining, breakPoint))

\* wrapText(text, maxWidth) up to the loop: a text that fits is returned whole.
WrapTextCall ==
  /\ wrap.pc = "call"
  /\ IF Len(wrap.text) <= wrap.maxWidth
       THEN wrap' = [wrap EXCEPT !.pc = "done", !.lines = <<wrap.text>>,
                                 !.branch = <<"whole">>]
       ELSE wrap' = [wrap EXCEPT !.pc = "loop", !.remaining = wrap.text]
  /\ UNCHANGED <<jobVars, sysVars, call, receipt, probe>>

\* One test of while (remaining.length > 0) and, when it holds, one iteration.
WrapTextLoop ==
  /\ wrap.pc = "loop"
  /\ LET remaining == wrap.remaining
         breakPoint == BreakPoint(remaining, wrap.maxWidth)
     IN IF Len(remaining) = 0
          THEN wrap' = [wrap EXCEPT !.pc = "done"]
          ELSE IF Len(remaining) <= wrap.maxWidth
            THEN wrap' = [wrap EXCEPT !.pc = "done",
                                      !.lines = Append(@, remaining),
                                      !.branch = Append(@, "rest")]
            ELSE wrap' = [wrap EXCEPT
                   !.lines = Append(@, PushedLine(remaining, breakPoint)),
                   !.branch = Append(@, IF breakPoint = wrap.maxWidth
                                          THEN "width" ELSE "space"),
                   !.remaining = Remainder(remaining, breakPoint)]
  /\ UNCHANGED <<jobVars, sysVars, call, receipt, probe>>

\* (mutant) the left text is cut only when the two texts overlap
CreateTwoColumnLineNoGap(leftStr, rightStr, totalWidth) ==
  LET spaceNeeded == totalWidth - Len(leftStr) - Len(rightStr)
      truncatedLeft == Substring(leftStr, 0, totalWidth - Len(rightStr) - 1)
  IN IF spaceNeeded < 0
       THEN truncatedLeft \o <<Space>> \o rightStr
       ELSE leftStr \o Spaces(spaceNeeded) \o rightStr

\* createTwoColumnLine(leftText, rightText, totalWidth)
CreateTwoColumnLine(leftStr, rightStr, totalWidth) ==
  LET spaceNeeded == totalWidth - Len(leftStr) - Len(rightStr)
      truncatedLeft == Substring(leftStr, 0, totalWidth - Len(rightStr) - 1)
  IN IF spaceNeeded < 1
       THEN truncatedLeft \o <<Space>> \o rightStr
       ELSE leftStr \o Spaces(spaceNeeded) \o rightStr

\* Paper widths are counted in tenths of a millimetre, so that widths between
\* two whole millimetres are inputs too; a width w of the code is 10 * w here.
\* const standardWidths = { 58: 32, 76: 42, 80: 48, 82: 48, 110: 64 }
standardWidths == (58 :> 32) @@ (76 :> 42) @@ (80 :> 48) @@ (82 :> 48) @@ (110 :> 64)

\* Object.keys(standardWidths).map(Number): integer keys come in ascending order
widths == <<58, 76, 80, 82, 110>>

Abs(x) == IF x < 0 THEN -x ELSE x

\* Math.abs(curr - widthMM) < Math.abs(prev - widthMM) ? curr : prev
Closer(prev, curr, widthMM) ==
  IF Abs(10 * curr - widthMM) < Abs(10 * prev - widthMM) THEN curr ELSE prev

\* widths.reduce(...) without initial value: starts from the first element
RECURSIVE Reduce(_, _, _, _)
Reduce(ws, i, prev, widthMM) ==
  IF i > Len(ws) THEN prev ELSE Reduce(ws, i + 1, Closer(prev, ws[i], widthMM), widthMM)

\* (mutant) the result is not held down to 64
ConstrainedFromBelow(calculatedChars) == Max(32, calculatedChars)

\* Math.max(32, Math.min(64, calculatedChars))
Constrained(calculatedChars) == Max(32, Min(64, calculatedChars))

\* Math.floor(((widthMM - 6) / 10) * 5.9): in tenths, ((w - 60) / 100) * 5.9.
\* The division rounds down as Math.floor does; for every width in tenths from
\* -50.0 to 300.0 the double arithmetic of the code gives the same integer.
CalculatedChars(widthMM) == ((widthMM - 60) * 59) \div 1000

\* getOptimalCharacterWidth(widthMM)
GetOptimalCharacterWidth(widthMM) ==
  LET closest == Reduce(widths, 2, widths[1], widthMM)
  IN IF Abs(10 * closest - widthMM) <= 20
       THEN standardWidths[closest]
       ELSE Constrained(CalculatedChars(widthMM))

\* The characters of amounts.
Digits == <<"0", "1", "2", "3", "4", "5", "6", "7", "8", "9">>
IsDigit(c) == \E i \in 1..Len(Digits) : Digits[i] = c
DigitValue(c) == (CHOOSE i \in 1..Len(Digits) : Digits[i] = c) - 1

\* String(i) for an integer i >= 0
RECURSIVE NatToString(_)
NatToString(i) ==
  IF i < 10 THEN <<Digits[i + 1]>>
  ELSE NatToString(i \div 10) \o <<Digits[(i % 10) + 1]>>

\* The value of a sequence of digits.
RECURSIVE DigitsValue(_)
DigitsValue(ds) ==
  IF ds = <<>> THEN 0
  ELSE 10 * DigitsValue(SubSeq(ds, 1, Len(ds) - 1)) + DigitValue(ds[Len(ds)])

\* The longest prefix of s made of digits.
DigitPrefix(s) ==
  LET stop == {i \in 1..Len(s) : ~IsDigit(s[i])}
  IN IF stop = {} THEN s
     ELSE SubSeq(s, 1, (CHOOSE i \in stop : \A j \in stop : i <= j) - 1)

\* parseInt(s): an optional sign, then the digits up to the first character
\* that is not one; NaN when there is no digit.  parseInt('-0') is -0, for
\* which i < 0 is false, Math.abs(i) is 0 and String(i) is '0': it is 0 here.
ParseInt(s) ==
  LET signed == Len(s) > 0 /\ s[1] \in {"-", "+"}
      ds == DigitPrefix(IF signed THEN Tail(s) ELSE s)
  IN IF ds = <<>>
       THEN [nan |-> TRUE, value |-> 0]
       ELSE [nan |-> FALSE,
             value |-> IF signed /\ s[1] = "-" THEN -DigitsValue(ds) ELSE DigitsValue(ds)]

\* amount.split('.', 2): the pieces between the dots, at most the first two
RECURSIVE Split(_)
Split(s) ==
  LET dots == {i \in 1..Len(s) : s[i] = "."}
  IN IF dots = {} THEN <<s>>
     ELSE LET d == CHOOSE i \in dots : \A j \in dots : i <= j
          IN <<SubSeq(s, 1, d - 1)>> \o Split(SubSeq(s, d + 1, Len(s)))

Split2(s) == SubSeq(Split(s), 1, Min(2, Len(Split(s))))

\* while (n.length > 3) { a.unshift(last three); n = the rest }; a.join(',')
RECURSIVE JoinGroups(_)
JoinGroups(n) ==
  IF Len(n) > 3
    THEN JoinGroups(SubSeq(n, 1, Len(n) - 3)) \o <<",">> \o SubSeq(n, Len(n) - 2, Len(n))
    ELSE n

\* amount.replace(/\.00$/, '')
StripDotZeroZero(s) ==
  IF Len(s) >= 3 /\ SubSeq(s, Len(s) - 2, Len(s)) = <<".", "0", "0">>
    THEN SubSeq(s, 1, Len(s) - 3)
    ELSE s

\* var minus = ''; if (i < 0) { minus = '-'; }
Minus(i) == IF i < 0 THEN <<"-">> ELSE <<>>

\* CommaFormatted(amount)
CommaFormatted(amount) ==
  LET a == Split2(amount)
      d == IF Len(a) > 1 THEN a[2] ELSE <<>>
      i == ParseInt(a[1])
      n == JoinGroups(NatToString(Abs(i.value)))
  IN IF i.nan THEN <<>>
     ELSE Minus(i.value)
            \o StripDotZeroZero(IF Len(d) < 1 THEN n ELSE n \o <<".">> \o d)

\* ------------------------------------------------- JavaScript numbers
\* A Number is an IEEE 754 double: 53 significant bits, every operation
\* rounded to the nearest double, ties to the even one.  Amounts stay far
\* from the limits of the exponent, which is therefore unbounded here.  A
\* natural number of any size is its sequence of digits to the base 2^15,
\* lowest first; a double is [m |-> digits, e |-> exponent] with the value
\* m * 2^e.
Precision == 53
Base == 2^15

RECURSIVE LimbsOfNat(_)
LimbsOfNat(n) == IF n = 0 THEN <<>> ELSE <<n % Base>> \o LimbsOfNat(n \div Base)

RECURSIVE NatOfLimbs(_)
NatOfLimbs(a) == IF a = <<>> THEN 0 ELSE a[1] + Base * NatOfLimbs(Tail(a))

\* Without the zeros above the highest digit.
RECURSIVE Norm(_)
Norm(a) ==
  IF a = <<>> THEN <<>>
  ELSE IF a[Len(a)] = 0 THEN Norm(SubSeq(a, 1, Len(a) - 1)) ELSE a

RECURSIVE AddCarry(_, _, _)
AddCarry(a, b, c) ==
  IF a = <<>> /\ b = <<>> THEN LimbsOfNat(c)
  ELSE LET x == IF a = <<>> THEN 0 ELSE a[1]
           y == IF b = <<>> THEN 0 ELSE b[1]
           t == x + y + c
       IN <<t % Base>> \o AddCarry(IF a = <<>> THEN a ELSE Tail(a),
                                   IF b = <<>> THEN b ELSE Tail(b), t \div Base)

AddLimbs(a, b) == Norm(AddCarry(a, b, 0))

RECURSIVE MulCarry(_, _, _)
MulCarry(a, k, c) ==
  IF a = <<>> THEN LimbsOfNat(c)
  ELSE LET t == a[1] * k + c
       IN <<t % Base>> \o MulCarry(Tail(a), k, t \div Base)

\* a * k for k <= 2^15
MulSmall(a, k) == Norm(MulCarry(a, k, 0))

\* a \div d and a % d for d <= 2^15 (long division from the highest digit)
RECURSIVE DivSmall(_, _)
DivSmall(a, d) ==
  IF a = <<>> THEN [q |-> <<>>, r |-> 0]
  ELSE LET hi == DivSmall(Tail(a), d)
           t == Base * hi.r + a[1]
       IN [q |-> <<t \div d>> \o hi.q, r |-> t % d]

\* a * 2^n and a \div 2^n
ShiftLeft(a, n) ==
  IF Norm(a) = <<>> THEN <<>>
  ELSE [i \in 1..(n \div 15) |-> 0] \o MulSmall(a, 2^(n % 15))

ShiftRight(a, n) ==
  IF n \div 15 >= Len(a) THEN <<>>
  ELSE Norm(DivSmall(SubSeq(a, (n \div 15) + 1, Len(a)), 2^(n % 15)).q)

\* The bit of a that counts 2^i.
Bit(a, i) ==
  IF (i \div 15) + 1 > Len(a) THEN 0 ELSE (a[(i \div 15) + 1] \div 2^(i % 15)) % 2

\* The number of bits of a up to its highest one.
BitLength(a) ==
  LET b == Norm(a)
  IN IF b = <<>> THEN 0
     ELSE 15 * (Len(b) - 1) + (CHOOSE n \in 1..15 : 2^(n - 1) <= b[Len(b)] /\ b[Len(b)] < 2^n)

\* The double nearest to m * 2^e, ties to even.
RoundToDouble(f) ==
  LET a == Norm(f.m)
      drop == BitLength(a) - Precision
      kept == ShiftRight(a, drop)
      sticky == \E i \in 0..(drop - 2) : Bit(a, i) = 1
      up == Bit(a, drop - 1) = 1 /\ (sticky \/ Bit(kept, 0) = 1)
  IN IF drop <= 0 THEN [m |-> a, e |-> f.e]
     ELSE [m |-> IF up THEN AddLimbs(kept, <<1>>) ELSE kept, e |-> f.e + drop]

\* The double nearest to k / den, as parseFloat and a numeric literal give it:
\* the quotient is taken to 70 binary places and a last bit records whether
\* the division left a remainder.
DoubleOfRatio(k, den) ==
  LET d == DivSmall(ShiftLeft(LimbsOfNat(k), 70), den)
  IN RoundToDouble([m |-> AddCarry(d.q, d.q, IF d.r = 0 THEN 0 ELSE 1), e |-> -71])

\* x + y
AddDouble(x, y) ==
  LET e == Min(x.e, y.e)
  IN RoundToDouble([m |-> AddLimbs(ShiftLeft(x.m, x.e - e), ShiftLeft(y.m, y.e - e)),
                    e |-> e])

\* x * k for an integer k
MulDouble(x, k) == RoundToDouble([m |-> MulSmall(x.m, k), e |-> x.e])

\* The integer part of x >= 0, as parseInt gives it for a number below 1e21.
Truncated(x) ==
  NatOfLimbs(IF x.e >= 0 THEN ShiftLeft(x.m, x.e) ELSE ShiftRight(x.m, -x.e))

\* A Number that is not NaN is a sign and the double of its magnitude.
NaN == [nan |-> TRUE, neg |-> FALSE, abs |-> [m |-> <<>>, e |-> 0]]

\* The amounts handed to CurrencyFormatted: not numeric, or a decimal number
\* of thousandths, written with a sign.
NotNumeric == [nan |-> TRUE, neg |-> FALSE, mills |-> 0]

\* parseFloat(amount)
ParseFloat(amount) ==
  IF amount.nan THEN NaN
  ELSE [nan |-> FALSE, neg |-> amount.neg, abs |-> DoubleOfRatio(amount.mills, 1000)]

\* i < 0, which is false of -0
IsNegative(i) == ~i.nan /\ i.neg /\ Norm(i.abs.m) # <<>>

\* Math.round(i): the integer floor(i + 0.5), computed exactly; NaN stays NaN.
\* For a magnitude v it is floor(v + 1/2) when i >= 0; when i < 0 it is
\* -ceil(v - 1/2), one less than floor(v + 1/2) where v + 1/2 is an integer.
MathRound(i) ==
  LET x == i.abs
      sum == AddLimbs(x.m, ShiftLeft(<<1>>, -x.e - 1))
      whole == \A k \in 0..(-x.e - 1) : Bit(sum, k) = 0
      up == NatOfLimbs(ShiftRight(sum, -x.e))
      n == IF x.e >= 0 THEN NatOfLimbs(ShiftLeft(x.m, x.e))
           ELSE IF i.neg /\ whole THEN up - 1 ELSE up
  IN IF i.nan THEN i
     ELSE [nan |-> FALSE, neg |-> i.neg, abs |-> [m |-> LimbsOfNat(n), e |-> 0]]

\* String(cents / 100): the shortest decimal that gives the double back, which
\* for a number of cents is the number written to the cent without the zeros
\* at its end.
CentsToString(cents) ==
  LET whole == NatToString(cents \div 100)
      frac == cents % 100
  IN IF frac = 0 THEN whole
     ELSE IF frac % 10 = 0 THEN whole \o <<".", Digits[(frac \div 10) + 1]>>
     ELSE whole \o <<".", Digits[(frac \div 10) + 1], Digits[(frac % 10) + 1]>>

\* i = parseInt((i + .005) * 100) for i >= 0
Cents(x) == Truncated(MulDouble(AddDouble(x, DoubleOfRatio(5, 1000)), 100))

\* CurrencyFormatted(amount, currency)
CurrencyFormatted(amount, currency) ==
  LET parsed == ParseFloat(amount)
      rounded == IF currency # "BDT" THEN MathRound(parsed) ELSE parsed
      i == IF rounded.nan THEN [NaN EXCEPT !.nan = FALSE] ELSE rounded
      minus == IF IsNegative(i) THEN <<"-">> ELSE <<>>
      s == CentsToString(Cents(i.abs))
  IN minus \o (IF \E k \in 1..Len(s) : s[k] = "." THEN StripDotZeroZero(s) ELSE s)

\* ------------------------------------------------- calls of the layout
MaxColumn == 3       \* longest left or right text of a two-column line
MaxTotal == 5        \* widest two-column line
MaxPaper == 1300     \* widest paper, in tenths of a millimetre
MaxAmount == 5       \* longest text handed to CommaFormatted
MaxMills == 1200     \* largest amount handed to CurrencyFormatted, in thousandths

AmountChars == {"0", "1", ".", "-", "a"}
Amounts ==
  {NotNumeric} \cup [nan : {FALSE}, neg : BOOLEAN, mills : 0..MaxMills]
Currencies == {"BDT", "USD"}

CreateTwoColumnLineCall ==
  /\ call.fn = "createTwoColumnLine" /\ call.pc = "call"
  /\ call' = [call EXCEPT !.pc = "done",
                !.result = CreateTwoColumnLine(call.leftText, call.rightText,
                                               call.totalWidth)]
  /\ UNCHANGED <<jobVars, sysVars, wrap, receipt, probe>>

GetOptimalCharacterWidthCall ==
  /\ call.fn = "getOptimalCharacterWidth" /\ call.pc = "call"
  /\ call' = [call EXCEPT !.pc = "done",
                !.chars = GetOptimalCharacterWidth(call.widthMM)]
  /\ UNCHANGED <<jobVars, sysVars, wrap, receipt, probe>>

CommaFormattedCall ==
  /\ call.fn = "CommaFormatted" /\ call.pc = "call"
  /\ call' = [call EXCEPT !.pc = "done", !.result = CommaFormatted(call.amount)]
  /\ UNCHANGED <<jobVars, sysVars, wrap, receipt, probe>>

CurrencyFormattedCall ==
  /\ call.fn = "CurrencyFormatted" /\ call.pc = "call"
  /\ call' = [call EXCEPT !.pc = "done",
                !.result = CurrencyFormatted(call.value, call.currency)]
  /\ UNCHANGED <<jobVars, sysVars, wrap, receipt, probe>>

\* The arguments of one call.
\* The calls the layout functions are studied on.
WrapInput(t, w) == [NoWrap EXCEPT !.pc = "call", !.text = t, !.maxWidth = w]

TwoColumnInput(l, r, w) ==
  [NoCall EXCEPT !.fn = "createTwoColumnLine", !.pc = "call",
                 !.leftText = l, !.rightText = r, !.totalWidth = w]

WidthInput(w) ==
  [NoCall EXCEPT !.fn = "getOptimalCharacterWidth", !.pc = "call", !.widthMM = w]

CommaInput(a) == [NoCall EXCEPT !.fn = "CommaFormatted", !.pc = "call", !.amount = a]

CurrencyInput(v, c) ==
  [NoCall EXCEPT !.fn = "CurrencyFormatted", !.pc = "call", !.value = v, !.currency = c]

\* Nothing else is going on while the layout functions are called.
LayoutBase ==
  /\ SysIdle
  /\ revision = "printer-api"
  /\ isDevelopment = FALSE
  /\ now = 0
  /\ activePrintJobs = [n \in Names |-> NoJob]
  /\ jobs = [r \in Req |-> NewJob]
  /\ receipt = NoReceipt
  /\ probe = NoProbe

LayoutInit ==
  /\ LayoutBase
  /\ \/ /\ call = NoCall
        /\ \E k \in 0..MaxText : \E t \in [1..k -> Chars] : \E w \in 1..MaxWidth :
             wrap = WrapInput(t, w)
     \/ /\ wrap = NoWrap
        /\ \/ \E i, j \in 0..MaxColumn : \E l \in [1..i -> Chars] : \E r \in [1..j -> Chars] :
                \E w \in 0..MaxTotal : call = TwoColumnInput(l, r, w)
           \/ \E w \in 0..MaxPaper : call = WidthInput(w)
           \/ \E k \in 0..MaxAmount : \E a \in [1..k -> AmountChars] : call = CommaInput(a)
           \/ \E v \in Amounts : \E c \in Currencies : call = CurrencyInput(v, c)

LayoutNext ==
  \/ WrapTextCall
  \/ WrapTextLoop
  \/ CreateTwoColumnLineCall
  \/ GetOptimalCharacterWidthCall
  \/ CommaFormattedCall
  \/ CurrencyFormattedCall

LayoutSpec == LayoutInit /\ [][LayoutNext]_vars

\* wrapText alone, on texts of one letter and spaces: which letter a
\* character is has no part in where the text is cut.  A call that has begun
\* runs on: nothing makes the loop wait.
WrapInit ==
  /\ LayoutBase
  /\ \E k \in 0..MaxText : \E t \in [1..k -> {"a", Space}] : \E w \in 1..MaxWidth :
       wrap = WrapInput(t, w)
  /\ call = NoCall

WrapNext == WrapTextCall \/ WrapTextLoop

FairWrapSpec ==
  /\ WrapInit /\ [][WrapNext]_vars
  /\ WF_vars(WrapTextCall) /\ WF_vars(WrapTextLoop)

\* ---------------------------------------------------------------- receipt
\* buildThermalReceipt(printer, data, totals) calls the printer's methods in
\* order; a call is written as the method with its argument, a printed line
\* by what it shows.  Of the receipt model only what decides which calls are
\* made is kept:
\*   data.location          the location object is there
\*   data.binNumber         "location" (data.location.binNumber), "top"
\*   data.vatFormNumber     (data.binNumber) or "none"; likewise
\*   data.items             per item, the number of lines its name wraps to
\*   data.notes             "none", or one visible note, "plain" or "dated"
\*   totals.payments        per payment, whether it has createdAt
MaxPayments == 1     \* payments on one receipt
MaxCharges == 1      \* charges on one receipt

Old == revision = "part_000"

\* The statements that only one of the two revisions has.
OnlyOld(calls) == IF Old THEN calls ELSE <<>>
OnlyNew(calls) == IF Old THEN <<>> ELSE calls

\* Lines 132-144: the organization name.
Header ==
  OnlyNew(<<"bold(true)">>)
    \o <<"alignCenter", "setTextQuadArea", "bold(true)", "println displayName">>
    \o OnlyOld(<<"bold(false)", "setTextNormal">>)
    \o OnlyNew(<<"invert(false)", "setTextNormal", "bold(true)", "setTextSize(0, 0)">>)

\* Line 150 reads data.location.vatFormNumber without ?. and throws a
\* TypeError when there is no data.location.
VatThrows(data) ==
  data.binNumber # "none" /\ data.vatFormNumber # "none" /\ ~data.location

\* Lines 147-152: BIN and VAT, up to the throw if there is one.
Tax(data) ==
  IF data.binNumber = "none" THEN <<>>
  ELSE <<"println BIN">>
         \o (IF data.vatFormNumber # "none" /\ data.location
               THEN <<"println Mushak">> ELSE <<>>)

\* Lines 155-176: address (one line here), contact and custom domain.
Contact(data) ==
  (IF data.address THEN <<"println address">> ELSE <<>>)
    \o (IF data.phone \/ data.email
          THEN (IF data.phone
                  THEN <<"print phone">> \o (IF data.email THEN <<"print , ">> ELSE <<>>)
                  ELSE <<>>)
               \o (IF data.email THEN <<"print email">> ELSE <<>>)
               \o <<"newLine">>
          ELSE <<>>)
    \o (IF data.customDomain THEN <<"println customDomain">> ELSE <<>>)

\* Lines 179-192: invoice number, date and time.
Invoice == <<"alignLeft", "drawLine", "println INVOICE", "println time">>

\* Lines 195-217: the customer with all of its fields, or none.
Customer(data) ==
  IF data.customer
    THEN <<"drawLine">> \o OnlyOld(<<"bold(true)">>) \o <<"println CUSTOMER">>
           \o OnlyOld(<<"bold(false)">>)
           \o <<"println name", "println Phone", "println Email", "println Address">>
    ELSE <<>>

\* Lines 230-257: the rows of the items.
RECURSIVE ItemRows(_)
ItemRows(items) ==
  IF items = <<>> THEN <<>>
  ELSE <<"tableCustom item">>
         \o [i \in 1..(Head(items) - 1) |-> "tableCustom continued"]
         \o ItemRows(Tail(items))

\* Lines 220-257
Items(data) ==
  <<"drawLine">> \o OnlyOld(<<"bold(true)">>) \o <<"tableCustom header">>
    \o OnlyOld(<<"bold(false)">>) \o <<"drawLine">> \o ItemRows(data.items)

\* Lines 260-282: subtotal, charges, grand total.
Summary(totals) ==
  <<"drawLine", "println Subtotal">>
    \o [i \in 1..totals.charges |-> "println charge"]
    \o OnlyOld(<<"bold(true)">>) \o <<"println TOTAL">> \o OnlyOld(<<"bold(false)">>)

\* Lines 287-298: the rows of the payments.
RECURSIVE PaymentRows(_)
PaymentRows(payments) ==
  IF payments = <<>> THEN <<>>
  ELSE <<"println payment">>
         \o (IF Head(payments) THEN <<"println paymentDate">> ELSE <<>>)
         \o PaymentRows(Tail(payments))

\* Lines 285-317
Payments(totals) ==
  IF Len(totals.payments) > 0
    THEN <<"drawLine">> \o PaymentRows(totals.payments) \o <<"drawLine">>
           \o (IF totals.totalPaid > 0
                 THEN OnlyOld(<<"bold(true)">>) \o <<"println PAID">>
                        \o OnlyOld(<<"bold(false)">>)
                 ELSE <<>>)
           \o (IF totals.balanceDue > 0
                 THEN OnlyOld(<<"bold(true)">>) \o <<"println DUE">>
                        \o OnlyOld(<<"bold(false)">>)
                 ELSE <<>>)
    ELSE <<>>

\* Lines 320-333
Notes(data) ==
  IF data.notes = "none" THEN <<>>
  ELSE <<"newLine", "drawLine">> \o OnlyOld(<<"bold(true)">>) \o <<"println Notes:">>
         \o OnlyOld(<<"bold(false)">>) \o <<"println note">>
         \o (IF data.notes = "dated" THEN <<"println noteDate">> ELSE <<>>)

\* Lines 336-347
Footer ==
  <<"newLine", "alignCenter">> \o OnlyNew(<<"setTextNormal">>)
    \o <<"setTypeFontB", "println Powered by ProSystem", "setTypeFontA">>
    \o OnlyNew(<<"bold(false)">>) \o <<"cut">>

\* buildThermalReceipt(printer, data, totals)
BuildThermalReceipt ==
  /\ receipt.pc = "call"
  /\ LET data == receipt.data
         totals == receipt.totals
     IN IF VatThrows(data)
          THEN receipt' = [receipt EXCEPT !.pc = "thrown", !.out = Header \o Tax(data)]
          ELSE receipt' = [receipt EXCEPT !.pc = "done",
                  !.out = Header \o Tax(data) \o Contact(data) \o Invoice
                            \o Customer(data) \o Items(data) \o Summary(totals)
                            \o Payments(totals) \o Notes(data) \o Footer]
  /\ UNCHANGED <<jobVars, sysVars, wrap, call, probe>>

\* The receipt models: what hangs on data.location is there only with it, and
\* a VAT form number is looked at only behind a BIN.
ReceiptData ==
  {d \in [location : BOOLEAN, binNumber : {"none", "location", "top"},
          vatFormNumber : {"none", "location", "top"},
          address : BOOLEAN, phone : BOOLEAN, email : BOOLEAN,
          customDomain : BOOLEAN, customer : BOOLEAN,
          items : {<<1>>, <<2>>}, notes : {"none", "dated"}] :
     /\ ~d.location => (/\ d.binNumber # "location" /\ d.vatFormNumber # "location"
                        /\ ~d.address /\ ~d.phone /\ ~d.email)
     /\ d.binNumber = "none" => d.vatFormNumber = "none"}

ReceiptTotals ==
  [charges : 0..MaxCharges,
   payments : UNION {[1..n -> BOOLEAN] : n \in 0..MaxPayments},
   totalPaid : {0, 1}, balanceDue : {0, 1}]

ReceiptInit ==
  /\ SysIdle
  /\ revision \in Revisions
  /\ isDevelopment = FALSE
  /\ now = 0
  /\ activePrintJobs = [n \in Names |-> NoJob]
  /\ jobs = [r \in Req |-> NewJob]
  /\ wrap = NoWrap
  /\ call = NoCall
  /\ probe = NoProbe
  /\ receipt \in [pc : {"call"}, data : ReceiptData, totals : ReceiptTotals, out : {<<>>}]

ReceiptNext == BuildThermalReceipt

ReceiptSpec == ReceiptInit /\ [][ReceiptNext]_vars

\* ------------------------------------------------------------ port probe
\* isPortAvailable(port) step by step: the call makes a test server and asks
\* it to listen; the bind is attempted later, and its outcome comes back as
\* the 'listening' or the 'error' event, whose handler resolves the promise.
\* While the test server listens it is the one that holds the port.
ProbeRest == <<jobVars, platform, old, intrusions, boot, hand, clients, wrap, call, receipt>>

\* err.code when the bind fails: the address is in use, or something else.
ErrorCodes == {"EADDRINUSE", "EACCES"}

\* Lines 471-473, 487: the promise's executor up to testServer.listen(port, '127.0.0.1')
IsPortAvailableCall(p) ==
  /\ probe.pc \in {"idle", "returned"}
  /\ probe' = [pc |-> "listen", port |-> p, code |-> "none", result |-> "none"]
  /\ UNCHANGED <<owner, ProbeRest>>

\* The bind of the test server: it fails with EADDRINUSE on a port somebody
\* holds, and may fail for another reason on a free one.
TestServerBind(refused) ==
  /\ probe.pc = "listen"
  /\ IF owner[probe.port] # "free"
       THEN probe' = [probe EXCEPT !.pc = "error", !.code = "EADDRINUSE"] /\ owner' = owner
       ELSE IF refused
         THEN probe' = [probe EXCEPT !.pc = "error", !.code = "EACCES"] /\ owner' = owner
         ELSE /\ probe' = [probe EXCEPT !.pc = "listening"]
              /\ owner' = [owner EXCEPT ![probe.port] = "testServer"]
  /\ UNCHANGED ProbeRest

\* Lines 475-481: testServer.once('error', ...)
TestServerError ==
  /\ probe.pc = "error"
  /\ probe' = [probe EXCEPT !.pc = "returned",
                            !.result = IF probe.code = "EADDRINUSE" THEN FALSE ELSE TRUE]
  /\ UNCHANGED <<owner, ProbeRest>>

\* (mutant) the test server is left open
TestServerListeningLeftOpen ==
  /\ probe.pc = "listening"
  /\ probe' = [probe EXCEPT !.pc = "returned", !.result = TRUE]
  /\ UNCHANGED <<owner, ProbeRest>>

\* Lines 483-486: testServer.once('listening', ...): close, then resolve(true)
TestServerListening ==
  /\ probe.pc = "listening"
  /\ owner' = [owner EXCEPT ![probe.port] = "free"]
  /\ probe' = [probe EXCEPT !.pc = "returned", !.result = TRUE]
  /\ UNCHANGED ProbeRest

\* The state startApi finds at a launch, with isPortAvailable about to be
\* called; other processes take and leave ports as they like meanwhile.
ProbeInit ==
  /\ revision = "printer-api"
  /\ isDevelopment = FALSE
  /\ now = 0
  /\ activePrintJobs = [n \in Names |-> NoJob]
  /\ jobs = [r \in Req |-> NewJob]
  /\ wrap = NoWrap
  /\ call = NoCall
  /\ receipt = NoReceipt
  /\ probe = NoProbe
  /\ platform \in Platforms
  /\ owner \in [PortSet -> {"free", "old", "foreign"}]
  /\ old \in IF \E p \in PortSet : owner[p] = "old"
               THEN {o \in Incumbents : o.held = {p \in PortSet : owner[p] = "old"}}
               ELSE {NoOld}
  /\ intrusions = 0
  /\ boot = NewBoot
  /\ hand = Primary
  /\ clients = [c \in Clients |-> NoClient]

ProbeNext ==
  \/ \E p \in PortSet : IsPortAvailableCall(p)
  \/ \E refused \in BOOLEAN : TestServerBind(refused)
  \/ TestServerError
  \/ TestServerListening
  \/ \E p \in PortSet : Intrude(p)
  \/ \E p \in PortSet : Depart(p)

ProbeSpec == ProbeInit /\ [][ProbeNext]_vars

\* ----------------------------------------------------------------- claims
\* A handler between its admission and its response.
InFlight(r) == jobs[r].pc \in {"loading", "printing", "transmitting"}

InFlightFor(p) == {r \in Req : InFlight(r) /\ jobs[r].name = p}

Range(f) == {f[i] : i \in DOMAIN f}
Count(f, x) == Cardinality({i \in DOMAIN f : f[i] = x})
Statuses == {"204", "400", "409", "500"}
\* The responses a handler has sent, in order.
Responses(r) == SelectSeq(jobs[r].log, LAMBDA e : e \in Statuses)

\* C1: with the registry enabled, at most one admitted and not yet completed
\* job exists per printer name, POST /print and POST /print-thermal together.
C1_AtMostOneInFlight ==
  Locking => \A p \in Names : Cardinality(InFlightFor(p)) <= 1

\* A /print job holds printer p while a /print-thermal request for p was refused.
C1_Witness ==
  /\ Locking
  /\ \E r, q \in Req :
       /\ InFlight(r) /\ jobs[r].endpoint = "print"
       /\ jobs[q].endpoint = "thermal" /\ jobs[q].name = jobs[r].name
       /\ jobs[q].log = <<"409">>

\* A request with a body the handler accepts arrives for printer p in this step.
ValidArrival(r, p) ==
  /\ jobs[r].pc = "new"
  /\ jobs'[r].pc # "new"
  /\ jobs'[r].log # <<"400">>
  /\ jobs'[r].name = p

\* C2 as stated: a request that arrives for a printer while a job for that
\* printer is in flight is answered 409 and the job in flight stays admitted.
C2_OverlapRejected_Original ==
  [][\A r \in Req : \A p \in Names :
       (ValidArrival(r, p) /\ InFlightFor(p) # {})
         => /\ jobs'[r].log = <<"409">>
            /\ \A q \in InFlightFor(p) : InFlight(q)']_vars

\* C2 amended: the same, in the revision that keeps the registry.
C2_OverlapRejected ==
  [][Locking =>
       \A r \in Req : \A p \in Names :
         (ValidArrival(r, p) /\ InFlightFor(p) # {})
           => /\ jobs'[r].log = <<"409">>
              /\ \A q \in InFlightFor(p) : InFlight(q)']_vars

\* A /print-thermal job holds printer p while a /print request for p was refused.
C2_Witness ==
  /\ Locking
  /\ \E r, q \in Req :
       /\ r < q
       /\ InFlight(r) /\ jobs[r].endpoint = "thermal"
       /\ jobs[q].endpoint = "print" /\ jobs[q].name = jobs[r].name
       /\ jobs[q].log = <<"409">>

\* C3: every admitted job removes its registry entry exactly once, before its
\* response, on every completion path; while in flight it has not removed it.
C3_ReleasedOnceBeforeResponse ==
  Locking =>
    \A r \in Req :
      "set" \in Range(jobs[r].log) =>
        /\ InFlight(r) => Count(jobs[r].log, "delete") = 0
        /\ jobs[r].pc = "done" =>
             /\ Count(jobs[r].log, "delete") = 1
             /\ Len(Responses(r)) = 1
             /\ \A i, k \in DOMAIN jobs[r].log :
                  (jobs[r].log[i] = "delete" /\ jobs[r].log[k] \in Statuses) => i < k

\* One admitted job was answered 204 and another 500 after a timeout, both
\* having removed their entry.
C3_Witness ==
  /\ Locking
  /\ \E r, q \in Req :
       /\ "delete" \in Range(jobs[r].log) /\ Responses(r) = <<"204">>
       /\ "delete" \in Range(jobs[q].log) /\ Responses(q) = <<"500">>
       /\ jobs[q].cause = "timeout"

\* C4: provided timers fire, every registry entry is eventually removed,
\* whatever the page load, the native callbacks and the emulator do.
C4_EveryLeaseReleased ==
  \A p \in Names : (activePrintJobs[p] # NoJob) ~> (activePrintJobs[p] = NoJob)

\* Handler r sends its response in this step.
Completes(r) == InFlight(r) /\ jobs'[r].pc = "done"

C6_RejectedOnlyWhileHeld ==
  [][\A r \in Req : \A p \in Names :
       (ValidArrival(r, p) /\ InFlightFor(p) = {}) => jobs'[r].log # <<"409">>]_vars

\* A job for a printer was answered 500 and a later request for the same
\* printer has been admitted.
C6_Witness ==
  \E r, q \in Req :
    /\ r < q
    /\ "set" \in Range(jobs[r].log) /\ Responses(r) = <<"500">>
    /\ jobs[q].name = jobs[r].name
    /\ "set" \in Range(jobs[q].log)

\* Handler r answers st in the step in which the request arrives.
AnsweredAtOnce(r, st) == jobs[r].pc = "new" /\ jobs'[r].log = <<st>>

\* The step leaves everything but handler r as it was, and r has created no
\* window, started no timer and no transmission.
NoSideEffects(r) ==
  /\ activePrintJobs' = activePrintJobs
  /\ \A q \in Req \ {r} : jobs'[q] = jobs[q]
  /\ jobs'[r].win = "null"
  /\ jobs'[r].timeout = "none"
  /\ jobs'[r].socket = "none"
  /\ jobs'[r].native = "none"
  /\ jobs'[r].pc = "done"

\* C7: a request answered 409 changes nothing: the holder's entry keeps its
\* token, no window is created, nothing is rendered or transmitted.
C7_BusyChangesNothing ==
  [][\A r \in Req : AnsweredAtOnce(r, "409") => NoSideEffects(r)]_vars

\* A request was answered 409 and the holder's entry still carries the
\* holder's token.
C7_Witness ==
  \E r, q \in Req :
    /\ jobs[q].log = <<"409">>
    /\ InFlight(r) /\ jobs[r].name = jobs[q].name
    /\ activePrintJobs[jobs[r].name] = jobs[r].jobKey
    /\ jobs[q].jobKey # jobs[r].jobKey

\* The body of the request handler r received lacks a field the endpoint requires.
LacksRequired(j) ==
  \/ j.endpoint = "print" /\ j.missing \in {"printer", "printer.name"}
  \/ j.endpoint = "thermal" /\ j.missing \in {"printer", "data", "totals", "widthMM"}

\* C8: a request lacking a required field is answered 400 at once, before any
\* entry is recorded, any window created or any transmission started.
C8_InvalidAnswered400 ==
  [][\A r \in Req :
       (jobs[r].pc = "new" /\ jobs'[r].pc # "new" /\ LacksRequired(jobs'[r]))
         => AnsweredAtOnce(r, "400") /\ NoSideEffects(r)]_vars

\* A /print-thermal request without widthMM was answered 400 while a job held
\* a printer, whose entry is still there.
C8_Witness ==
  \E r, q \in Req :
    /\ jobs[q].endpoint = "thermal" /\ jobs[q].missing = "widthMM"
    /\ jobs[q].log = <<"400">>
    /\ InFlight(r) /\ activePrintJobs[jobs[r].name] = jobs[r].jobKey

\* C9: POST /print whose print callback reported failure before the timeout
\* is answered 204, never 500.
C9_CallbackFailureIs204 ==
  \A r \in Req : jobs[r].cb = "failure" => Responses(r) = <<"204">>

\* The callback reported failure and the request was answered 204.
C9_Witness ==
  \E r \in Req : jobs[r].cb = "failure" /\ jobs[r].pc = "done"
                 /\ jobs[r].timeout = "cleared" /\ "204" \in Range(jobs[r].log)

TransportFailures ==
  {"timeout", "socket-error", "raw-error", "write-threw", "connect-threw",
   "printDirect-threw"}

\* C10: POST /print-thermal whose transmission failed or timed out is
\* answered 500 with a message, and no request transmits twice.
C10_TransportFailureIs500 ==
  \A r \in Req :
    jobs[r].endpoint = "thermal" =>
      /\ jobs[r].cause \in TransportFailures =>
           Responses(r) = <<"500">> /\ jobs[r].message # ""
      /\ Count(jobs[r].log, "connect") + Count(jobs[r].log, "printDirect") <= 1
      /\ Count(jobs[r].log, "write") <= 1

\* One request timed out and another met a transport error; both were
\* answered 500 after a single transmission attempt.
C10_Witness ==
  \E r, q \in Req :
    /\ jobs[r].endpoint = "thermal" /\ jobs[r].cause = "timeout"
    /\ jobs[q].endpoint = "thermal" /\ jobs[q].cause \in {"socket-error", "raw-error"}
    /\ Responses(r) = <<"500">> /\ Responses(q) = <<"500">>

\* ------------------------------------------------- claims: port arbitration
\* The process is there and nothing of the startup is pending any more.
StartupOver == boot.pc \in {"running", "failed", "silent"}

\* C11: per launch startApi is entered at most 3 times whatever the failure
\* paths were (ports busy, exception, EADDRINUSE on listen), every entry after
\* the first is made by the 3 s retry timer, and apiStartupAttempts never
\* exceeds 3.
C11_AtMostThreeAttempts ==
  [][ /\ boot'.calls <= MAX_STARTUP_ATTEMPTS
      /\ boot'.apiStartupAttempts <= MAX_STARTUP_ATTEMPTS
      /\ (boot'.calls > boot.calls /\ boot.calls >= 1
            => boot.pc = "backoff" /\ boot.timer = BACKOFF_MS) ]_vars

\* The third attempt has failed on the listen path after earlier attempts
\* failed on busy ports.
C11_Witness ==
  /\ boot.calls = MAX_STARTUP_ATTEMPTS
  /\ boot.apiStartupAttempts = MAX_STARTUP_ATTEMPTS
  /\ boot.pc = "silent"
  /\ boot.killed # {}

\* C12: a startup that is over is either RUNNING or has reported
\* 'api-startup-failed', never both and never neither; in particular an
\* exhausted attempt bound is always reported.
C12_RunningOrReported ==
  StartupOver => ((boot.pc = "running") # (boot.reported > 0))

\* The incumbent has answered POST /shutdown with 200.
Answered200 == old.kind = "agent" /\ "200" \in Range(old.log)

\* Something other than the incumbent got in the way of this launch: an
\* unrelated process took a port, or an attempt has failed.
Disturbed == intrusions > 0 \/ boot.apiStartupAttempts > 0 \/ boot.calls > 1

\* C13: when the incumbent that holds a service port answers POST /shutdown
\* and frees the port, killProcessOnPort is never invoked for that port, and
\* the new instance gets to RUNNING (unless something else disturbs the launch).
C13_GracefulNeedsNoKill ==
  /\ [](\A p \in PortSet :
          Answered200 /\ p \in old.held /\ intrusions = 0 => p \notin boot.killed)
  /\ (Answered200 /\ old.held = PortSet ~> boot.pc = "running" \/ Disturbed)

\* The incumbent held both ports, has answered and exited, and the new
\* instance runs without having called killProcessOnPort.
C13_Witness ==
  /\ Answered200 /\ old.held = PortSet /\ old.state = "exited"
  /\ boot.pc = "running" /\ boot.killed = {} /\ HTTP_PORT \in boot.answered

\* The HTTP server of the new instance is bound and serves.
Running == boot.pc = "running"

\* C14: a port whose holder did not answer POST /shutdown (error or timeout)
\* is listened on only after killProcessOnPort was invoked for it and a later
\* probe found it free; and when the final check found the port still busy on
\* each of the 3 attempts, 'api-startup-failed' has been reported.
C14_UnansweredNeedsKill ==
  /\ \A p \in boot.unanswered :
       boot.pc \in {"listening", "listenError", "running"}
         => p \in boot.killed /\ p \in boot.freeAfterKill
  /\ boot.stillBusy = MAX_STARTUP_ATTEMPTS => boot.pc = "failed" /\ boot.reported = 1

\* A stale incumbent did not answer, was terminated by taskkill, and the new
\* instance runs.
C14_Witness ==
  /\ Running /\ old.state = "killed"
  /\ HTTP_PORT \in boot.unanswered /\ HTTP_PORT \in boot.freeAfterKill

\* ------------------------------------------------- claims: instance takeover
\* C15: a process that could not acquire the single-instance lock posts
\* /shutdown to 127.0.0.1:21321 and then relaunches, after the 3 s wait when
\* the request was answered and after terminating the processes on the port
\* when it failed or timed out; it never gives up, so that the newest process
\* ends up as the running instance (stated for the launch code that has
\* forceKillOldInstance).
C15_NewestProcessWins ==
  hand.revision = "part_002" =>
    /\ hand.pc \notin {"quit", "gone"}
    /\ hand.pc \in {"wait", "killwait", "relaunch"} => "POST" \in Range(hand.log)

\* The agent processes: the incumbent and the starting instance.
Agents == {"old", "new"}

C17_ShutdownEndsInExit ==
  /\ [](old.log # <<>> => Head(old.log) = "200")
  /\ (Answered200 ~> /\ old.state \in {"exited", "killed"}
                     /\ \A p \in PortSet : owner[p] # "old")

\* ------------------------------------------------- claims: other platforms
\* The services are being started or are up.
Listens == boot.pc \in {"listening", "listenError", "running"}

\* The step in which ensurePortsAvailable calls killProcessOnPort.
KillInvoked ==
  /\ boot.pc \in {"graceful", "recheck"}
  /\ boot'.pc \in {"final", "netstat"}

C19_KillFreesPortOffWindows ==
  [][platform # "win32" /\ KillInvoked /\ owner[ThePort(boot)] \in {"old", "foreign"}
       => owner'[ThePort(boot)] = "free"]_vars

\* ------------------------------------------------- claims: heartbeat
\* The members of wss.clients.
OpenClients == {c \in Clients : clients[c].state = "open"}

\* C20 as stated: a tick terminates every client that has not sent a pong
\* since the previous tick and pings all the others.
C20_TickDropsSilent_Original ==
  [][HeartbeatTick =>
       \A c \in OpenClients :
         IF ~clients[c].ponged
           THEN clients'[c].state = "terminated"
           ELSE clients'[c].state = "open" /\ clients'[c].pinged]_vars

\* C20: a tick terminates every client whose ping of the previous tick is
\* still unanswered and pings all the others, the clients that connected
\* since the previous tick included; a client that has answered every ping
\* before the next tick is never terminated by the heartbeat.
C20_TickDropsUnanswered ==
  /\ [][HeartbeatTick =>
          \A c \in OpenClients :
            IF clients[c].pinged
              THEN clients'[c].state = "terminated"
              ELSE clients'[c].state = "open" /\ clients'[c].pinged]_vars
  /\ [](\A c \in Clients : clients[c].state = "terminated" => clients[c].missed)
  /\ [](\A c \in OpenClients : clients[c].fresh => ~clients[c].pinged)

\* One client was dropped for an unanswered ping while another one, which
\* has answered, and a third one, which has just connected, are pinged.
C20_Witness ==
  \E a, b, c \in Clients :
    /\ clients[a].state = "terminated"
    /\ clients[b].state = "open" /\ clients[b].ponged /\ ~clients[b].fresh
    /\ clients[c].state = "open" /\ clients[c].fresh /\ ~clients[c].ponged

\* ------------------------------------------------ claims on the layout
\* The characters of s other than spaces, in order.
Ink(s) == SelectSeq(s, LAMBDA c : c # Space)

\* s with its spaces at both ends removed and every run of spaces made one.
SingleSpaced(s) ==
  LET t == Trim(s)
      keep == {i \in 1..Len(t) : ~(t[i] = Space /\ t[i - 1] = Space)}
      nth(k) == CHOOSE i \in keep : Cardinality({j \in keep : j <= i}) = k
  IN [k \in 1..Cardinality(keep) |-> t[nth(k)]]

\* lines.join(sep)
RECURSIVE Join(_, _)
Join(lines, sep) ==
  IF lines = <<>> THEN <<>>
  ELSE IF Len(lines) = 1 THEN lines[1]
  ELSE lines[1] \o sep \o Join(Tail(lines), sep)

WrapDone == wrap.pc = "done"

EveryLineFits == \A i \in 1..Len(wrap.lines) : Len(wrap.lines[i]) <= wrap.maxWidth

\* C21 as stated: every line of wrapText is at most maxWidth long, a line cut
\* where no break point was found is exactly maxWidth long, and the lines
\* joined (by a space, or by nothing) and single-spaced give the single-spaced
\* text back.
C21_WrapReconstructs_Original ==
  WrapDone =>
    /\ EveryLineFits
    /\ \A i \in 1..Len(wrap.lines) :
         wrap.branch[i] = "width" => Len(wrap.lines[i]) = wrap.maxWidth
    /\ \/ SingleSpaced(Join(wrap.lines, <<Space>>)) = SingleSpaced(wrap.text)
       \/ SingleSpaced(Join(wrap.lines, <<>>)) = SingleSpaced(wrap.text)

\* C21 as amended: every line is at most maxWidth long; a line cut where no
\* break point was found is exactly maxWidth long unless it is the first line
\* of a text that begins with a space; and the characters of the lines other
\* than spaces are those of the text, in order.
C21_WrapKeepsInk ==
  WrapDone =>
    /\ EveryLineFits
    /\ \A i \in 1..Len(wrap.lines) :
         (wrap.branch[i] = "width" /\ ~(i = 1 /\ wrap.text[1] = Space))
            => Len(wrap.lines[i]) = wrap.maxWidth
    /\ Ink(Join(wrap.lines, <<>>)) = Ink(wrap.text)

\* A text is cut both at a space and in the middle of a word.
C21_Witness ==
  /\ WrapDone
  /\ \E i \in 1..Len(wrap.lines) : wrap.branch[i] = "width"
  /\ \E i \in 1..Len(wrap.lines) : wrap.branch[i] = "space"

CallDone(fn) == call.fn = fn /\ call.pc = "done"

\* s ends with t
EndsWith(s, t) == Len(t) <= Len(s) /\ SubSeq(s, Len(s) - Len(t) + 1, Len(s)) = t

\* C22: when the right text is shorter than totalWidth, createTwoColumnLine
\* returns exactly totalWidth characters that end with the whole right text;
\* when the two texts together reach totalWidth, the left text is cut to
\* totalWidth - right.length - 1 characters and one space follows it.
C22_TwoColumnFills ==
  (CallDone("createTwoColumnLine") /\ Len(call.rightText) < call.totalWidth) =>
    LET room == call.totalWidth - Len(call.rightText) - 1
    IN /\ Len(call.result) = call.totalWidth
       /\ EndsWith(call.result, call.rightText)
       /\ Len(call.leftText) + Len(call.rightText) >= call.totalWidth =>
            call.result = SubSeq(call.leftText, 1, room) \o <<Space>> \o call.rightText

\* A left text is cut, and part of it is kept.
C22_Witness ==
  /\ CallDone("createTwoColumnLine")
  /\ Len(call.rightText) < call.totalWidth
  /\ Len(call.leftText) + Len(call.rightText) >= call.totalWidth
  /\ call.totalWidth - Len(call.rightText) - 1 > 0
  /\ Len(call.rightText) > 0

\* The distance of a paper width from a standard width, in tenths of a
\* millimetre, and the standard widths nearest to it.
Distance(std, widthMM) == Abs(10 * std - widthMM)

Nearest(widthMM) ==
  {c \in DOMAIN standardWidths :
     \A d \in DOMAIN standardWidths : Distance(c, widthMM) <= Distance(d, widthMM)}

\* C23: getOptimalCharacterWidth returns the character count of a nearest
\* standard width when that width is within 2 mm, otherwise
\* floor(((w - 6) / 10) * 5.9) held to 32..64; the result is always in 32..64.
C23_CharacterWidth ==
  CallDone("getOptimalCharacterWidth") =>
    LET w == call.widthMM
        computed == ((w - 60) * 59) \div 1000
    IN /\ call.chars \in 32..64
       /\ IF \E c \in Nearest(w) : Distance(c, w) <= 20
            THEN \E c \in Nearest(w) : call.chars = standardWidths[c]
            ELSE call.chars = (IF computed < 32 THEN 32
                               ELSE IF computed > 64 THEN 64 ELSE computed)

\* A width that is computed, not looked up, and not held back: 100 mm gives 55.
C23_Witness ==
  /\ CallDone("getOptimalCharacterWidth")
  /\ \A c \in DOMAIN standardWidths : Distance(c, call.widthMM) > 20
  /\ call.chars > 32 /\ call.chars < 64

\* The parts of a decimal string: an optional minus sign, the digits of the
\* integer part (no zero in front of another digit), and optionally a dot
\* and the digits of the fractional part.
Unsigned(s) == IF Len(s) > 0 /\ s[1] = "-" THEN Tail(s) ELSE s
IntegerPart(s) == DigitPrefix(Unsigned(s))
FractionPart(s) == SubSeq(Unsigned(s), Len(IntegerPart(s)) + 2, Len(Unsigned(s)))

IsDecimal(s) ==
  LET u == Unsigned(s)
      n == Len(IntegerPart(s))
  IN /\ n > 0
     /\ n > 1 => u[1] # "0"
     /\ Len(u) > n => u[n + 1] = "."
     /\ \A i \in 1..Len(FractionPart(s)) : IsDigit(FractionPart(s)[i])

\* ds with a comma in front of every digit that has a multiple of three
\* digits from it to the end, the first digit excepted.
HasCommas(out, ds) ==
  /\ SelectSeq(out, LAMBDA c : c # ",") = ds
  /\ \A p \in 1..Len(out) : (out[p] = ",") <=> ((Len(out) - p + 1) % 4 = 0)

\* C24: for a decimal string CommaFormatted puts a comma between the groups of
\* three digits of the integer part, keeps the fractional part, strips a
\* trailing .00 and keeps a leading minus sign; it returns the empty string
\* when the integer part does not parse as a number.
C24_CommaFormatted ==
  CallDone("CommaFormatted") =>
    LET a == call.amount
        out == Unsigned(call.result)
        dot == Len(FractionPart(a)) > 0 /\ FractionPart(a) # <<"0", "0">>
        int == SubSeq(out, 1, Len(out) - (IF dot THEN Len(FractionPart(a)) + 1 ELSE 0))
    IN /\ IsDecimal(a) =>
            /\ HasCommas(int, IntegerPart(a))
            /\ dot => EndsWith(out, <<".">> \o FractionPart(a))
            /\ (a[1] = "-") <=> (Len(call.result) > 0 /\ call.result[1] = "-")
       /\ ParseInt(Split2(a)[1]).nan => call.result = <<>>

\* floor(x * 100 + 1/2) for the exact value of a double x >= 0
HalfUpCents(x) ==
  IF x.e >= 0 THEN 100 * NatOfLimbs(ShiftLeft(x.m, x.e))
  ELSE NatOfLimbs(ShiftRight(AddLimbs(MulSmall(x.m, 200), ShiftLeft(<<1>>, -x.e)),
                             1 - x.e))

\* The integers nearest to mills / 1000
NearestIntegers(mills) ==
  {n \in {mills \div 1000, (mills \div 1000) + 1} :
     \A k \in {mills \div 1000, (mills \div 1000) + 1} :
        Abs(1000 * n - mills) <= Abs(1000 * k - mills)}

\* C25: CurrencyFormatted returns the absolute value rounded half-up to cents
\* (of the decimal amount, or of the double that stands for it), with the sign
\* of the amount and without a trailing .00; for a currency other than BDT the
\* amount is first rounded to a nearest integer; an amount that is not numeric
\* gives 0.  The sign of a result that is zero is left open.
C25_CurrencyHalfUp ==
  CallDone("CurrencyFormatted") =>
    LET v == call.value
        cents == IF call.currency = "BDT"
                   THEN {(v.mills + 5) \div 10, HalfUpCents(DoubleOfRatio(v.mills, 1000))}
                   ELSE {100 * n : n \in NearestIntegers(v.mills)}
    IN IF v.nan THEN call.result = <<"0">>
       ELSE \E c \in cents :
              /\ Unsigned(call.result) = CentsToString(c)
              /\ c > 0 => ((call.result[1] = "-") <=> v.neg)

\* C26: wrapText terminates for every text and every maxWidth >= 1: a call
\* that has begun returns, and every iteration that does not end the loop
\* leaves a remainder strictly shorter than it found.
C26_WrapTerminates ==
  /\ (wrap.pc = "call") ~> WrapDone
  /\ [][(wrap.pc = "loop" /\ wrap'.pc = "loop")
          => Len(wrap'.remaining) < Len(wrap.remaining)]_vars

\* The loop has run three times and the call has returned.
C26_Witness == WrapDone /\ Len(wrap.lines) >= 3 /\ wrap.maxWidth >= 1

\* ------------------------------------------------- claims on the receipt
\* buildThermalReceipt has been called and is over, by return or by throw.
ReceiptOver == receipt.pc \in {"done", "thrown"}

\* Where a call is made in the sequence of calls.
Places(out, made) == {i \in 1..Len(out) : out[i] = made}

\* The separators of the payments: the lines drawn behind the grand total,
\* but for the one that opens the notes, which follows an empty line.
PaymentSeparators(out) ==
  {i \in Places(out, "drawLine") :
     /\ \E t \in Places(out, "println TOTAL") : t < i
     /\ out[i - 1] # "newLine"}

PaymentRowPlaces(out) == Places(out, "println payment") \cup Places(out, "println paymentDate")

\* C27: without payments the receipt has no payment row, no payment
\* separator, no PAID and no DUE row, whatever totalPaid and balanceDue are;
\* with payments it has the PAID row exactly if totalPaid > 0 and the DUE row
\* exactly if balanceDue > 0, both behind the last payment separator, which is
\* behind every payment row, and PAID before DUE.
C27_PaymentRows ==
  ReceiptOver =>
    LET out == receipt.out
        totals == receipt.totals
        paid == Places(out, "println PAID")
        due == Places(out, "println DUE")
        separators == PaymentSeparators(out)
    IN IF Len(totals.payments) = 0
         THEN /\ PaymentRowPlaces(out) = {}
              /\ separators = {}
              /\ paid = {}
              /\ due = {}
         ELSE /\ Cardinality(paid) = (IF totals.totalPaid > 0 THEN 1 ELSE 0)
              /\ Cardinality(due) = (IF totals.balanceDue > 0 THEN 1 ELSE 0)
              /\ Cardinality(separators) = 2
              /\ \E last \in separators :
                   /\ \A i \in separators \cup PaymentRowPlaces(out) : i <= last
                   /\ \A i \in paid \cup due : last < i
              /\ \A p \in paid, d \in due : p < d

\* Whether emphasis is on behind a sequence of calls: bold(true) turns it on,
\* bold(false) and setTextNormal turn it off.
RECURSIVE Emphasis(_)
Emphasis(out) ==
  IF out = <<>> THEN FALSE
  ELSE LET last == out[Len(out)]
       IN IF last = "bold(true)" THEN TRUE
          ELSE IF last \in {"bold(false)", "setTextNormal"} THEN FALSE
          ELSE Emphasis(SubSeq(out, 1, Len(out) - 1))

\* C28: whatever parts the receipt has, buildThermalReceipt cuts the paper
\* exactly once, as its last call, behind the centred footer line and the
\* reset of the font, and with emphasis off.
C28_CutOnceAtTheEnd ==
  ReceiptOver =>
    LET out == receipt.out
        n == Len(out)
    IN /\ Cardinality(Places(out, "cut")) = 1
       /\ n > 0 /\ out[n] = "cut"
       /\ \E f \in Places(out, "println Powered by ProSystem") :
            /\ \E c \in 1..(f - 1) :
                 /\ out[c] = "alignCenter"
                 /\ \A i \in c..f : out[i] # "alignLeft"
            /\ \E r \in (f + 1)..(n - 1) :
                 /\ out[r] = "setTypeFontA"
                 /\ \A i \in r..n : out[i] # "setTypeFontB"
       /\ ~Emphasis(SubSeq(out, 1, n - 1))


\* --------------------------------------------- claims on the port probe
\* What the processes other than the test server hold.
WithoutTestServer(own) ==
  [p \in PortSet |-> IF own[p] = "testServer" THEN "free" ELSE own[p]]

\* C29: the probe leaves the port as it found it and reports what the bind
\* said.  No step of isPortAvailable changes what another process holds; the
\* only port its test server ever holds is the probed one, which was free;
\* once isPortAvailable has returned the test server holds nothing, so that
\* ownership is what it was before the call; and the result is false exactly
\* if the bind failed with EADDRINUSE.
C29_ProbeLeavesPorts ==
  /\ [](probe.pc = "returned" =>
          /\ \A p \in PortSet : owner[p] # "testServer"
          /\ probe.result = FALSE <=> probe.code = "EADDRINUSE")
  /\ [](probe.pc \in {"idle", "listen", "error"} =>
          \A p \in PortSet : owner[p] # "testServer")
  /\ [][probe' # probe =>
          /\ WithoutTestServer(owner') = WithoutTestServer(owner)
          /\ \A p \in PortSet : owner'[p] # owner[p] =>
               /\ p = probe'.port
               /\ {owner[p], owner'[p]} = {"free", "testServer"}]_vars

\* isPortAvailable has returned true after its test server had the port.
C29_Witness ==
  /\ probe.pc = "returned"
  /\ probe.result = TRUE
  /\ probe.code = "none"
  /\ owner[probe.port] = "free"


\* ---------------------------------------------- claims on the responses
\* An event that completes the operation of handler r has happened: its
\* timer has fired, the print callback has reported, the socket has failed
\* or closed or its write has thrown, or printDirect has called back.
Completed(r) ==
  \/ jobs[r].timeout = "fired"
  \/ jobs[r].cb # "none"
  \/ jobs[r].socket \in {"open", "destroyed", "closed"}
  \/ jobs[r].native = "printDirect" /\ jobs[r].timeout = "cleared"

Resolving == {"callback", "socket-close", "raw-success"}
Rejecting == {"timeout", "socket-error", "write-threw", "raw-error"}

\* C30: every POST /print and POST /print-thermal request is answered exactly
\* once however its timer, the print callback and the socket events fall:
\* no handler ever has two responses; a handler has its response as soon as
\* one completing event has happened; the event that came first decides it
\* (204 if it resolves, 500 if it rejects); and nothing that comes later
\* changes or repeats the response.
C30_ExactlyOneResponse ==
  /\ [](\A r \in Req :
          /\ Len(Responses(r)) <= 1
          /\ jobs[r].pc = "done" <=> Len(Responses(r)) = 1
          /\ Completed(r) => Len(Responses(r)) = 1
          /\ jobs[r].cause \in Resolving => Responses(r) = <<"204">>
          /\ jobs[r].cause \in Rejecting => Responses(r) = <<"500">>)
  /\ [][\A r \in Req :
          Responses(r) # <<>> =>
            /\ SelectSeq(jobs'[r].log, LAMBDA e : e \in Statuses) = Responses(r)
            /\ jobs'[r].message = jobs[r].message
            /\ jobs'[r].cause = jobs[r].cause]_vars

\* One request was answered 500 by its timer and then saw its socket fail and
\* close; another was answered 500 by a socket error that a close followed.
C30_Witness ==
  \E r, q \in Req :
    /\ jobs[r].cause = "timeout" /\ jobs[r].socket = "closed"
    /\ Responses(r) = <<"500">>
    /\ jobs[q].cause = "socket-error" /\ jobs[q].socket = "closed"
    /\ Responses(q) = <<"500">>


\* ------------------------------------------------ claims on the leases
\* C31: with the registry, a job writes its buffer only while it holds the
\* entry of its printer: no handler writes after it has removed its entry,
\* so that no write falls into the time of a later job for the same printer.
C31_WritesOnlyUnderLease ==
  Locking =>
    \A r \in Req : \A i, j \in DOMAIN jobs[r].log :
      (jobs[r].log[i] = "delete" /\ jobs[r].log[j] = "write") => j < i


\* ------------------------------------------------- claims on the lock
\* The process runs its launch code without the single-instance lock.
WithoutLock == hand.pc \in {"request", "wait", "netstat", "killwait", "quit", "relaunch"}

\* C32: a process that did not get the single-instance lock does not start
\* the services: it has not called startApi, arbitrates no port and holds
\* none.
C32_OnlyLockHolderStarts ==
  WithoutLock =>
    /\ boot.pc = "idle"
    /\ boot.calls = 0
    /\ \A p \in PortSet : owner[p] # "new"


\* --------------------------------------------- claims on the start-up
\* C33: forced reclamation never turns on the process that runs it: in no
\* attempt is killProcessOnPort called for a port this process itself is
\* bound to, and the process is never terminated by its own taskkill.
C33_NeverKillsItself ==
  /\ [][\A p \in PortSet :
          (p \in boot'.killed /\ p \notin boot.killed) => owner[p] # "new"]_vars
  /\ [](boot.pc # "killed")


\* C34: when the start-up reports success (the listen callback runs and
\* resets the attempt counter), this process listens on both ports, whatever
\* another process did between the probes and the binds.
C34_SuccessMeansBothPorts ==
  [][(boot.pc # "running" /\ boot'.pc = "running") =>
       /\ boot'.apiStartupAttempts = 0
       /\ \A p \in PortSet : owner'[p] = "new"]_vars


\* C35: across the attempts of startApi in one process at most one heartbeat
\* interval is alive at any time, and when the retry timer starts another
\* attempt nothing of the earlier ones is left: no interval is running and the
\* process holds no listener, in particular not the WebSocket server.
C35_RetryLeavesNothingAlive ==
  /\ [](boot.intervals <= 1)
  /\ [][(boot.pc = "backoff" /\ boot'.pc = "probe") =>
          /\ boot.intervals = 0
          /\ \A p \in PortSet : owner[p] # "new"]_vars

\* ----------------------------------------------- claims on the takeover
\* C36: in one launch forceKillOldInstance is called at most once, whichever
\* way the /shutdown request of the launch code ends.
C36_ForcedAtMostOnce == hand.forced <= 1

\* ---------------------------------------------- claims on the registry
\* C37: with the registry enabled every entry is the job key of a handler that
\* was admitted for that printer name and has not sent its response yet; so
\* the registry is empty whenever no such handler exists.
C37_EntriesAreInFlight ==
  Locking =>
    /\ \A p \in Names :
         activePrintJobs[p] # NoJob =>
           \E r \in Req : /\ InFlight(r)
                          /\ jobs[r].name = p
                          /\ jobs[r].jobKey = activePrintJobs[p]
                          /\ Responses(r) = <<>>
    /\ (\A r \in Req : ~InFlight(r)) => \A p \in Names : activePrintJobs[p] = NoJob

\* Every request has been answered, one of them was turned away with 409
\* while another held the printer and failed with 500, and the registry is
\* empty.
C37_Witness ==
  /\ Locking
  /\ \A r \in Req : jobs[r].pc = "done"
  /\ \E r \in Req : Responses(r) = <<"409">>
  /\ \E r \in Req : Responses(r) = <<"500">> /\ "delete" \in Range(jobs[r].log)
  /\ \A p \in Names : activePrintJobs[p] = NoJob

\* ------------------------------------------ claims on the character width
\* C38: getOptimalCharacterWidth does not decrease as the paper gets wider:
\* the result for a whole number of millimetres is at least the result for
\* every smaller whole number of millimetres.
C38_WiderPaperNoFewerChars ==
  (CallDone("getOptimalCharacterWidth") /\ call.widthMM % 10 = 0) =>
    \A a \in 0..call.widthMM :
      a % 10 = 0 => GetOptimalCharacterWidth(a) <= call.chars

====
